---- MODULE Spec2Model ----
(***************************************************************************)
(* A model of the CodingAgent runtime: the ReAct controller                *)
(* (agents/coding_agent.py), the execution engine                          *)
(* (code_executors/coding_agent_code_executor.py) and the import allowlist *)
(* validator (code_executors/allowlist_validator.py).                      *)
(*                                                                         *)
(* Python strings are TLA+ strings; a dotted module name is kept as the    *)
(* sequence of its characters where the code inspects characters           *)
(* (fnmatch, rstrip, startswith, split).  A Python value that crosses the  *)
(* final-answer marker is a record [t |-> type, v |-> printed form].       *)
(***************************************************************************)
EXTENDS Integers, Sequences, FiniteSets, TLC

\* ------------------------------------------------------------------------
\* Bounds of the model
\* ------------------------------------------------------------------------

\* max_iterations is drawn from 1..MaxIter
MaxIter == 3

\* error_retry_attempts is drawn from 0..MaxRetry
MaxRetry == 2

\* LLM calls over all invocations of one run of the model; an invocation
\* starts only when its whole iteration budget still fits
MaxTotalCalls == 3

\* the same budget in the runs checked for termination
MaxFairCalls == 2

\* direct calls of the engine's entry points in the engine-level harness
MaxEngineCalls == 3

\* /tool_call requests one sandbox execution issues
MaxRequests == 2

\* characters of an import name passed to is_import_allowed
MaxNameLen == 4

\* characters of the module name an allowlist entry is built from
MaxBaseLen == 3

\* import statements of a code passed to validate_imports
MaxStatements == 2

\* fenced blocks of a response passed to _extract_code_block
MaxBlocks == 3

\* lines of a string passed to final_answer
MaxAnswerLines == 2

\* ------------------------------------------------------------------------
\* Python values and strings
\* ------------------------------------------------------------------------

None == [t |-> "none", v |-> "null"]

PyStr(s) == [t |-> "str", v |-> s]

PyInt(s) == [t |-> "int", v |-> s]

IsStr(x) == x.t = "str"

RECURSIVE Str(_)
\* the string spelled by a sequence of characters
Str(cs) == IF cs = <<>> THEN "" ELSE Head(cs) \o Str(Tail(cs))

RECURSIVE JoinWith(_, _)
\* sep.join(items)
JoinWith(sep, items) ==
  IF items = <<>> THEN ""
  ELSE IF Len(items) = 1 THEN items[1]
  ELSE items[1] \o sep \o JoinWith(sep, Tail(items))

RECURSIVE SelectSeqIdx(_, _)
\* the subsequence of s at the indices in idx (idx a set of indices)
SelectSeqIdx(s, idx) ==
  IF s = <<>> THEN <<>>
  ELSE LET n == Len(s)
           r == SelectSeqIdx(SubSeq(s, 1, n - 1), idx)
       IN IF n \in idx THEN Append(r, s[n]) ELSE r

\* json.loads on the text after the final-answer marker, with the engine's
\* fallback to the literal string when the text is not JSON
JsonLoadsOrLiteral(s) ==
  CASE s = "null"   -> None
    [] s = "42"     -> PyInt("42")
    [] s = "\"x\""  -> PyStr("x")
    [] OTHER        -> PyStr(s)

\* json.dumps of a non-string value
JsonDumps(x) ==
  CASE x.t = "none" -> "null"
    [] x.t = "int"  -> x.v
    [] OTHER        -> "\"" \o x.v \o "\""

\* ------------------------------------------------------------------------
\* Allowlist validator
\* ------------------------------------------------------------------------

RECURSIVE FnMatch(_, _)
\* fnmatch.fnmatch(name, pat) for patterns over literals and "*"
FnMatch(name, pat) ==
  IF pat = <<>> THEN name = <<>>
  ELSE IF Head(pat) = "*"
       THEN \/ FnMatch(name, Tail(pat))
            \/ (name # <<>> /\ FnMatch(Tail(name), pat))
       ELSE /\ name # <<>>
            /\ Head(name) = Head(pat)
            /\ FnMatch(Tail(name), Tail(pat))

RECURSIVE RStripDotStar(_)
\* pattern.rstrip(".*"): drops every trailing "." and "*" character
RStripDotStar(p) ==
  IF p # <<>> /\ p[Len(p)] \in {".", "*"}
  THEN RStripDotStar(SubSeq(p, 1, Len(p) - 1))
  ELSE p

StartsWith(s, prefix) ==
  /\ Len(prefix) <= Len(s)
  /\ SubSeq(s, 1, Len(prefix)) = prefix

\* the prefixes ".".join(parts[:i+1]) of a dotted name: the whole name and
\* every cut right before a "."
ParentPrefixes(name) ==
  {SubSeq(name, 1, k) : k \in {j \in 0..Len(name) :
                                 j = Len(name) \/ name[j + 1] = "."}}

\* a matcher that lets an exact entry cover its submodules as well
is_import_allowed_prefix(import_name, allowlist) ==
  \/ import_name \in allowlist
  \/ \E pattern \in allowlist :
       \/ FnMatch(import_name, pattern)
       \/ StartsWith(import_name, RStripDotStar(pattern) \o <<".">>)
  \/ \E parent \in ParentPrefixes(import_name) :
       (parent \o <<".", "*">>) \in allowlist

is_import_allowed(import_name, allowlist) ==
  \/ import_name \in allowlist
  \/ \E pattern \in allowlist :
       /\ \E i \in 1..Len(pattern) : pattern[i] = "*"
       /\ \/ FnMatch(import_name, pattern)
          \/ StartsWith(import_name, RStripDotStar(pattern) \o <<".">>)
  \/ \E parent \in ParentPrefixes(import_name) :
       (parent \o <<".", "*">>) \in allowlist

\* the violation text for one import of the code, or "" when it is allowed
\* a check of from-imports that looks at the module only
ViolationOfModuleOnly(imp, allowlist) ==
  IF is_import_allowed(imp.module, allowlist)
  THEN ""
  ELSE IF imp.is_from_import
       THEN "Line " \o ToString(imp.line_number)
            \o ": Unauthorized import \"from " \o Str(imp.module)
            \o " import " \o Str(imp.names[1]) \o "\""
       ELSE "Line " \o ToString(imp.line_number)
            \o ": Unauthorized import \"" \o Str(imp.module) \o "\""

ViolationOf(imp, allowlist) ==
  IF imp.is_from_import
  THEN LET name == imp.names[1]
           full_name == IF imp.module # <<>>
                        THEN imp.module \o <<".">> \o name
                        ELSE name
       IN IF is_import_allowed(imp.module, allowlist)
             \/ is_import_allowed(full_name, allowlist)
          THEN ""
          ELSE "Line " \o ToString(imp.line_number)
               \o ": Unauthorized import \"from " \o Str(imp.module)
               \o " import " \o Str(name) \o "\""
  ELSE IF is_import_allowed(imp.module, allowlist)
       THEN ""
       ELSE "Line " \o ToString(imp.line_number)
            \o ": Unauthorized import \"" \o Str(imp.module) \o "\""

\* validate_imports: the list of violations of the code
\* a validator that goes on to check the imports of code that does not parse
validate_imports_lenient(code, allowlist) ==
  LET all == [i \in 1..Len(code.imports) |->
                ViolationOf(code.imports[i], allowlist)]
      found == SelectSeqIdx(all, {i \in 1..Len(all) : all[i] # ""})
  IN IF ~code.syntax_ok
     THEN <<"Syntax error in code: invalid syntax">> \o found
     ELSE found

validate_imports(code, allowlist) ==
  IF ~code.syntax_ok
  THEN <<"Syntax error in code: invalid syntax">>
  ELSE LET all == [i \in 1..Len(code.imports) |->
                     ViolationOf(code.imports[i], allowlist)]
       IN SelectSeqIdx(all, {i \in 1..Len(all) : all[i] # ""})

\* str(ImportValidationError(violations, code))
ImportValidationErrorStr(violations) ==
  "Import validation failed. Unauthorized imports found:\n"
  \o JoinWith("\n", [i \in 1..Len(violations) |-> "  - " \o violations[i]])

\* ------------------------------------------------------------------------
\* State
\* ------------------------------------------------------------------------

VARIABLES
  max_iterations,        \* CodingAgent.max_iterations
  error_retry_attempts,  \* CodingAgent.error_retry_attempts
  stateful,              \* CodingAgent.stateful, handed to the engine
  coding_executor,       \* CodingAgent._coding_executor is not None
  engine,                \* the CodingAgentCodeExecutor and its tool server
  agent_states,          \* ctx.agent_states[self.name], kept by the host
  pc,                    \* position of _run_async_impl
  ctx,                   \* id of the current InvocationContext
  state,                 \* the CodingAgentState of the running invocation
  iteration,             \* local variable iteration
  error_count,           \* local variable error_count
  final_answer,          \* local variable final_answer
  contents,              \* the message buffer passed to the LLM
  response_text,         \* text of the last LLM response
  code,                  \* code extracted from the last response
  exec_result,           \* what the last engine call returned
  events,                \* events yielded by the running invocation
  llm_calls,             \* LLM calls made by the running invocation
  calls_left,            \* LLM calls the model may still make in this run
  loaded_steps,          \* length of the history the invocation started with
  dispatched,            \* calls received by the underlying executor in
                         \* the running invocation (or harness run)
  effects,               \* effects of the last engine call, in order
  engine_calls,          \* calls made by the engine-level harness
  last_call,             \* the last call made by the harness
  server,                \* the ToolExecutionServer and the engine handle
  requests,              \* /tool_call requests of the running sandbox
                         \* execution, in the order they were issued
  sandbox_buffer,        \* __ADK_TOOL_TRACES of the running sandbox program
  tool_runs,             \* requests for which tool.run_async was called
  import_name,           \* argument import_name of is_import_allowed
  allowlist,             \* argument allowlist of is_import_allowed
  checked,               \* is_import_allowed or validate_imports returned
  allowed,               \* what is_import_allowed returned
  source,                \* argument code of validate_imports
  violation_list,        \* what validate_imports returned
  reply,                 \* argument response_text of _extract_code_block
  extracted,             \* what _extract_code_block returned
  answer_value,          \* the string the user code passes to final_answer,
                         \* as the sequence of its lines
  answer_result,         \* what the engine recovers and the event carries
  construction           \* the last construction of a config or an agent

vars == <<max_iterations, error_retry_attempts, stateful, coding_executor,
          engine, agent_states, pc, ctx, state, iteration, error_count,
          final_answer, contents, response_text, code, exec_result, events,
          llm_calls, calls_left, loaded_steps, dispatched, effects,
          engine_calls, last_call, server, requests, sandbox_buffer,
          tool_runs,
         import_name, allowlist, checked, allowed, source,
         violation_list, reply, extracted, answer_value,
         answer_result, construction>>

ipc_vars == <<server, requests, sandbox_buffer, tool_runs>>

agent_vars == <<coding_executor, engine, agent_states, pc, ctx, state,
                iteration, error_count, final_answer, contents,
                response_text, code, exec_result, events, llm_calls,
                calls_left, loaded_steps, dispatched, effects>>

config_vars == <<max_iterations, error_retry_attempts, stateful>>

matcher_vars == <<import_name, allowlist, checked, allowed, source,
                  violation_list, reply, extracted, answer_value,
         answer_result, construction>>

controller_vars == <<agent_states, pc, ctx, state, iteration, error_count,
                     final_answer, contents, response_text, code, events,
                     llm_calls, calls_left, loaded_steps>>

\* ------------------------------------------------------------------------
\* Inputs: generated code, LLM responses, sandbox results
\* ------------------------------------------------------------------------

\* the agent's authorized_imports: {"json", "collections.*"}
AuthorizedImports ==
  { <<"j", "s", "o", "n">>,
    <<"c", "o", "l", "l", "e", "c", "t", "i", "o", "n", "s", ".", "*">> }

PlainImport(module, line) ==
  [module |-> module, names |-> <<>>, line_number |-> line,
   is_from_import |-> FALSE]

FromImport(module, name, line) ==
  [module |-> module, names |-> <<name>>, line_number |-> line,
   is_from_import |-> TRUE]

\* generated code: its text and what ast.parse finds in it
CodeOk ==
  [text |-> "import json\nx = compute()", syntax_ok |-> TRUE,
   imports |-> <<PlainImport(<<"j", "s", "o", "n">>, 1)>>]

CodeImportOs ==
  [text |-> "import os", syntax_ok |-> TRUE,
   imports |-> <<PlainImport(<<"o", "s">>, 1)>>]

CodeFromOs ==
  [text |-> "import json\nfrom os import system", syntax_ok |-> TRUE,
   imports |-> <<PlainImport(<<"j", "s", "o", "n">>, 1),
                 FromImport(<<"o", "s">>, <<"s", "y", "s", "t", "e", "m">>,
                 2)>>]

CodeSyntaxError ==
  [text |-> "def (", syntax_ok |-> FALSE, imports |-> <<>>]

CodeEmpty == [text |-> "", syntax_ok |-> TRUE, imports |-> <<>>]

\* code that does not parse and holds an import outside the allowlist
CodeSyntaxErrorImportOs ==
  [text |-> "import os\ndef (", syntax_ok |-> FALSE,
   imports |-> <<PlainImport(<<"o", "s">>, 1)>>]

\* code the LLM may produce / code a direct caller may hand to the engine
Codes ==
  {CodeOk, CodeImportOs, CodeFromOs, CodeSyntaxError, CodeSyntaxErrorImportOs}

\* an LLM response: its text and its fenced blocks in order of appearance
\* (~~~ stands for the fence of three backquote characters)
RespText == [text |-> "The answer is 4.", blocks |-> <<>>]

RespTool(c) ==
  [text |-> "~~~tool_code\n" \o c.text \o "\n~~~",
   blocks |-> <<[tag |-> "tool_code", body |-> c]>>]

RespPython(c) ==
  [text |-> "~~~python\n" \o c.text \o "\n~~~",
   blocks |-> <<[tag |-> "python", body |-> c]>>]

\* a response whose only block has an empty body
RespEmptyBlock == RespTool(CodeEmpty)

Responses ==
  {RespText, RespTool(CodeOk), RespPython(CodeImportOs), RespEmptyBlock}

\* one line of sandbox stdout: its marker prefix (if any) and the rest
TextLine(s) == [marker |-> "", text |-> s, traces |-> <<>>]

FinalLine(s) == [marker |-> "__FINAL_ANSWER__:", text |-> s, traces |-> <<>>]

TraceLine(ts) == [marker |-> "__TOOL_TRACE__:", text |-> "", traces |-> ts]

\* a text as stdout lines
LinesOf(text) == IF text = "" THEN <<>> ELSE <<TextLine(text)>>

\* results of the underlying executor; stdout "" is the empty list of lines
\* tool_calls are the /tool_call requests the program made while it ran
ResPlain ==
  [stdout |-> <<TextLine("7"), TraceLine(<<>>)>>, stderr |-> "",
   tool_calls |-> <<>>]

ResFinalStr ==
  [stdout |-> <<FinalLine("done"), TraceLine(<<>>)>>, stderr |-> "",
   tool_calls |-> <<>>]

ResFinalInt ==
  [stdout |-> <<TextLine("7"), FinalLine("42"), TraceLine(<<>>)>>,
   stderr |-> "", tool_calls |-> <<>>]

ResFinalNull ==
  [stdout |-> <<FinalLine("null"), TraceLine(<<>>)>>, stderr |-> "",
   tool_calls |-> <<>>]

ResError ==
  [stdout |-> <<>>, stderr |-> "NameError: name compute is not defined",
   tool_calls |-> <<>>]

ResFinalThenError ==
  [stdout |-> <<FinalLine("done")>>,
   stderr |-> "ZeroDivisionError: division by zero", tool_calls |-> <<>>]

\* one tool call as the trace buffers record it
SearchTrace == [tool_name |-> "search", args |-> "query=q", success |-> TRUE]

ResToolCall ==
  [stdout |-> <<TextLine("hit"), TraceLine(<<SearchTrace>>)>>, stderr |-> "",
   tool_calls |-> <<SearchTrace>>]

\* what the sandbox answers in an invocation of the controller
SandboxResults ==
  {ResPlain, ResFinalStr, ResFinalInt, ResFinalNull, ResError,
   ResFinalThenError}

\* what the sandbox answers a direct caller of the engine
HarnessResults == {ResPlain, ResToolCall, ResFinalStr, ResError}

\* ------------------------------------------------------------------------
\* A sandbox adapter that starts a fresh interpreter on every execute call
\* ------------------------------------------------------------------------

\* programs whose outcome depends on the interpreter state they run in
CodeAssignX == [text |-> "x = 40", syntax_ok |-> TRUE, imports |-> <<>>]

CodeUseX ==
  [text |-> "final_answer(x + 2)", syntax_ok |-> TRUE, imports |-> <<>>]

CodeDivZero == [text |-> "y = 1 / 0", syntax_ok |-> TRUE, imports |-> <<>>]

CodePrint == [text |-> "print(7)", syntax_ok |-> TRUE, imports |-> <<>>]

\* programs that call tools through the injected stubs
CodeSearch ==
  [text |-> "r = search(query=q)", syntax_ok |-> TRUE, imports |-> <<>>]

CodeSearchThenRaise ==
  [text |-> "r = search(query=q)\ny = 1 / 0", syntax_ok |-> TRUE,
   imports |-> <<>>]

CodeMissingTool ==
  [text |-> "r = lookup(query=q)", syntax_ok |-> TRUE, imports |-> <<>>]

ToolCodes == {CodeSearch, CodeSearchThenRaise, CodeMissingTool}

\* the tool calls a program makes, in order, and whether it raises after them
ProgramOf(c) ==
  CASE c = CodeSearch -> [calls |-> <<"search">>, raises |-> FALSE]
    [] c = CodeSearchThenRaise -> [calls |-> <<"search">>, raises |-> TRUE]
    [] OTHER -> [calls |-> <<"lookup">>, raises |-> FALSE]

SessionCodes == {CodeAssignX, CodeUseX, CodeDivZero, CodePrint} \cup ToolCodes

\* the tools registered with the server; flaky raises when it is run
RegisteredTools == {"search", "flaky"}

ToolRaises(tool_name) == tool_name = "flaky"

\* a tool trace reduced to the fields both trace buffers carry
TraceKey(tool_name, success) ==
  [tool_name |-> tool_name, args |-> "query=q", success |-> success]

\* str(e) of the exception a raising tool raises
ToolError(tool_name) == "tool failure"

\* a handler that answers 200 although the tool raised
ExecuteToolSwallowsError(tool_name) ==
  IF tool_name \notin RegisteredTools
  THEN [status |-> 404, error |-> "Tool not found: " \o tool_name,
        trace  |-> [tool_name |-> tool_name, args |-> "query=q",
                    success |-> FALSE,
                    error |-> "Tool not found: " \o tool_name],
        ran    |-> FALSE]
  ELSE IF ToolRaises(tool_name)
  THEN [status |-> 200, error |-> "",
        trace  |-> [tool_name |-> tool_name, args |-> "query=q",
                    success |-> FALSE, error |-> ToolError(tool_name)],
        ran    |-> TRUE]
  ELSE [status |-> 200, error |-> "",
        trace  |-> [tool_name |-> tool_name, args |-> "query=q",
                    success |-> TRUE, error |-> ""],
        ran    |-> TRUE]

\* ToolExecutionServer._execute_tool for one request handled from start to
\* end: the HTTP status, the error text, the trace appended to self.traces
\* and whether the tool was run
ExecuteTool(tool_name) ==
  IF tool_name \notin RegisteredTools
  THEN [status |-> 404, error |-> "Tool not found: " \o tool_name,
        trace  |-> [tool_name |-> tool_name, args |-> "query=q",
                    success |-> FALSE,
                    error |-> "Tool not found: " \o tool_name],
        ran    |-> FALSE]
  ELSE IF ToolRaises(tool_name)
  THEN [status |-> 500, error |-> ToolError(tool_name),
        trace  |-> [tool_name |-> tool_name, args |-> "query=q",
                    success |-> FALSE, error |-> ToolError(tool_name)],
        ran    |-> TRUE]
  ELSE [status |-> 200, error |-> "",
        trace  |-> [tool_name |-> tool_name, args |-> "query=q",
                    success |-> TRUE, error |-> ""],
        ran    |-> TRUE]

\* _call_adk_tool on the response: the entry appended to the sandbox
\* buffer; a status other than 200 raises RuntimeError in the program
SandboxTrace(tool_name, status) == TraceKey(tool_name, status = 200)

RECURSIVE RunCalls(_, _, _)
\* the tool calls of a program made one after the other: the sandbox
\* buffer, the requests the server handled and whether a call raised
RunCalls(calls, buffer, served) ==
  IF calls = <<>> THEN [buffer |-> buffer, served |-> served,
                        raised |-> FALSE]
  ELSE LET response == ExecuteTool(Head(calls))
           buffer2  == Append(buffer, SandboxTrace(Head(calls),
                                                   response.status))
           served2  == Append(served, TraceKey(response.trace.tool_name,
                                               response.trace.success))
       IN IF response.status # 200
          THEN [buffer |-> buffer2, served |-> served2, raised |-> TRUE]
          ELSE RunCalls(Tail(calls), buffer2, served2)

\* the program generated for a tool-calling code: the calls, then the
\* trace epilogue unless an exception ended the program before it
RunToolProgram(c) ==
  LET prog == ProgramOf(c)
      run  == RunCalls(prog.calls, <<>>, <<>>)
  IN IF run.raised
     THEN [stdout |-> <<>>, stderr |-> "RuntimeError: Tool call failed",
           tool_calls |-> run.served]
     ELSE IF prog.raises
     THEN [stdout |-> <<>>,
           stderr |-> "ZeroDivisionError: division by zero",
           tool_calls |-> run.served]
     ELSE [stdout |-> <<TraceLine(run.buffer)>>, stderr |-> "",
           tool_calls |-> run.served]

\* the variable bindings of an interpreter that has run nothing
EmptyEnv == [x_bound |-> FALSE, x |-> 0]

\* one program run in an interpreter with bindings env: the bindings
\* afterwards and the captured output
RunProgram(env, c) ==
  CASE c = CodeAssignX ->
         [env    |-> [x_bound |-> TRUE, x |-> 40],
          result |-> [stdout |-> <<TraceLine(<<>>)>>, stderr |-> "",
                      tool_calls |-> <<>>]]
    [] c = CodeUseX ->
         [env    |-> env,
          result |-> IF env.x_bound
                     THEN [stdout |-> <<FinalLine(ToString(env.x + 2)),
                                        TraceLine(<<>>)>>,
                           stderr |-> "", tool_calls |-> <<>>]
                     ELSE [stdout |-> <<>>,
                           stderr |-> "NameError: name x is not defined",
                           tool_calls |-> <<>>]]
    [] c = CodePrint ->
         [env    |-> env,
          result |-> [stdout |-> <<TextLine("7"), TraceLine(<<>>)>>,
                      stderr |-> "", tool_calls |-> <<>>]]
    [] c \in ToolCodes -> [env |-> env, result |-> RunToolProgram(c)]
    [] OTHER ->
         [env    |-> env,
          result |-> [stdout |-> <<>>,
                      stderr |-> "ZeroDivisionError: division by zero",
                      tool_calls |-> <<>>]]

\* execute(code) of the adapter: a new interpreter for every call
FreshExecute(c) == RunProgram(EmptyEnv, c).result

RECURSIVE RunSession(_, _)
\* the programs run one after the other in one persistent interpreter:
\* the output of the last one
RunSession(env, programs) ==
  LET run == RunProgram(env, Head(programs))
  IN IF Len(programs) = 1 THEN run.result
     ELSE RunSession(run.env, Tail(programs))

\* the program with the given source text
SessionCodeOfText(text) == CHOOSE c \in SessionCodes : c.text = text

\* ------------------------------------------------------------------------
\* Execution engine (CodingAgentCodeExecutor)
\* ------------------------------------------------------------------------

\* an invocation context / tool context that is None
NoCtx == 0

\* CodingAgentCodeExecutor right after construction (model_post_init)
NewEngine ==
  [execution_history  |-> <<>>,
   invocation_context |-> NoCtx,
   tool_context       |-> NoCtx,
   tool_server        |-> FALSE,
   server_context     |-> NoCtx,
   server_tool_context |-> NoCtx,
   server_traces      |-> <<>>,
   servers_started    |-> 0,
   ran_with           |-> <<>>]

\* a set_context that keeps a tool context the engine already holds
EngineSetContextKeepsToolContext(eng, ictx, tctx) ==
  [eng EXCEPT !.invocation_context = ictx,
              !.tool_context = IF @ # NoCtx THEN @ ELSE tctx,
              !.server_context = IF eng.tool_server THEN ictx ELSE @,
              !.server_tool_context = IF eng.tool_server THEN tctx ELSE @]

\* a set_context that also forgets the steps recorded so far
EngineSetContextReset(eng, ictx, tctx) ==
  [eng EXCEPT !.invocation_context = ictx,
              !.tool_context = tctx,
              !.execution_history = <<>>,
              !.server_context = IF eng.tool_server THEN ictx ELSE @,
              !.server_tool_context = IF eng.tool_server THEN tctx ELSE @]

\* CodingAgentCodeExecutor.set_context
EngineSetContext(eng, ictx, tctx) ==
  [eng EXCEPT !.invocation_context = ictx,
              !.tool_context = tctx,
              !.server_context = IF eng.tool_server THEN ictx ELSE @,
              !.server_tool_context = IF eng.tool_server THEN tctx ELSE @]

\* _start_tool_server: creates and starts a server unless one exists
StartToolServer(eng) ==
  IF eng.tool_server THEN eng
  ELSE [eng EXCEPT !.tool_server = TRUE,
                   !.server_context = eng.invocation_context,
                   !.server_tool_context = NoCtx,
                   !.server_traces = <<>>,
                   !.servers_started = @ + 1]

\* a set_context on the server that is not followed by clear_traces
InstallContextOnly(eng, ictx) ==
  IF eng.tool_server
  THEN [eng EXCEPT !.server_context = ictx,
                   !.server_tool_context = eng.tool_context]
  ELSE eng

\* ToolExecutionServer.set_context followed by clear_traces
InstallContextAndClear(eng, ictx) ==
  IF eng.tool_server
  THEN [eng EXCEPT !.server_context = ictx,
                   !.server_tool_context = eng.tool_context,
                   !.server_traces = <<>>]
  ELSE eng

\* _execute_tool, lines 243-258: the tool context a tool is run with on
\* the server of the engine: the installed one, else one created from the
\* installed invocation context (and kept), else None
ToolContextUsed(eng) ==
  IF eng.server_tool_context # NoCtx THEN eng.server_tool_context
  ELSE eng.server_context

\* cleanup: stops the server and clears the history
EngineCleanup(eng) ==
  [eng EXCEPT !.tool_server = FALSE,
              !.server_traces = IF eng.tool_server THEN <<>> ELSE @,
              !.execution_history = <<>>]

RECURSIVE FlattenTraces(_)
\* the traces of all trace-marker lines, in line order
FlattenTraces(lines) ==
  IF lines = <<>> THEN <<>>
  ELSE (IF Head(lines).marker = "__TOOL_TRACE__:"
        THEN Head(lines).traces ELSE <<>>) \o FlattenTraces(Tail(lines))

\* "\n".join(clean_lines).strip() for lines without edge whitespace
CleanStdout(lines) ==
  LET clean == SelectSeq(lines, LAMBDA l : l.marker = "")
      keep  == {i \in 1..Len(clean) :
                  /\ \E j \in 1..i : clean[j].text # ""
                  /\ \E j \in i..Len(clean) : clean[j].text # ""}
      kept  == SelectSeqIdx(clean, keep)
  IN JoinWith("\n", [i \in 1..Len(kept) |-> kept[i].text])

\* _extract_traces_and_answer: the last final-answer line wins
ExtractTracesAndAnswer(result) ==
  LET finals == SelectSeq(result.stdout,
                          LAMBDA l : l.marker = "__FINAL_ANSWER__:")
  IN [code_result      |-> result,
      tool_traces      |-> FlattenTraces(result.stdout),
      final_answer     |-> IF finals = <<>> THEN None
                           ELSE JsonLoadsOrLiteral(finals[Len(finals)].text),
      has_final_answer |-> finals # <<>>,
      clean_stdout     |-> CleanStdout(result.stdout)]

\* what execute_code_extended returns when validation fails
ValidationFailureResult(violations) ==
  [code_result      |-> [stdout |-> <<>>,
                         stderr |-> ImportValidationErrorStr(violations)],
   tool_traces      |-> <<>>,
   final_answer     |-> None,
   has_final_answer |-> FALSE,
   clean_stdout     |-> ""]

\* a step that is recorded as successful whatever the stderr
ExecutionStepAlwaysSuccess(user_code, result, extended) ==
  [code         |-> user_code.text,
   result       |-> result,
   tool_traces  |-> extended.tool_traces,
   success      |-> TRUE,
   final_answer |-> extended.final_answer]

\* ExecutionStep(code, result, tool_traces, success, final_answer)
ExecutionStep(user_code, result, extended) ==
  [code         |-> user_code.text,
   result       |-> result,
   tool_traces  |-> extended.tool_traces,
   success      |-> result.stderr = "",
   final_answer |-> extended.final_answer]

\* a replay that re-dispatches every prior step, failed ones included
ReplayDispatchesAll(eng, is_stateful) ==
  IF ~is_stateful THEN <<>>
  ELSE [i \in 1..Len(eng.execution_history) |->
          [code |-> eng.execution_history[i].code, replay |-> TRUE]]

\* _replay_history: the codes re-dispatched to the underlying executor
ReplayDispatches(eng, is_stateful) ==
  IF ~is_stateful \/ eng.execution_history = <<>> THEN <<>>
  ELSE LET ok == SelectSeq(eng.execution_history, LAMBDA st : st.success)
       IN [i \in 1..Len(ok) |-> [code |-> ok[i].code, replay |-> TRUE]]

\* what the underlying executor answers when a recorded step is run again:
\* the re-run is taken to print a final answer and then fail, the answer
\* that would show most if the engine used it
ReplayAnswer(step) == ResFinalThenError

\* the value _replay_history returns: None without replay, else the result
\* of the last replayed step
ReplayLastResult(eng, is_stateful) ==
  LET ok == SelectSeq(eng.execution_history, LAMBDA st : st.success)
  IN IF ~is_stateful \/ ok = <<>> THEN None
     ELSE ReplayAnswer(ok[Len(ok)])

\* a result that reports the failure of the replay instead of the new code
ResultAfterReplayKeepsError(last_result, extended) ==
  IF last_result # None /\ last_result.stderr # ""
  THEN ExtractTracesAndAnswer(last_result)
  ELSE extended

\* lines 360-362 and 442-444: the value of _replay_history is dropped, the
\* result is the one extracted from the run of the new code
ResultAfterReplay(last_result, extended) == extended

\* AllowlistValidator(authorized_imports).validate on each code of the model
ValidatorResult ==
  [c \in Codes \cup SessionCodes |->
     validate_imports(c, AuthorizedImports)]

RECURSIVE ReplayToolCalls(_)
\* the /tool_call requests of the replayed steps: a replayed step is taken
\* to repeat the calls it made when it first ran
ReplayToolCalls(steps) ==
  IF steps = <<>> THEN <<>>
  ELSE (IF Head(steps).success THEN Head(steps).tool_traces ELSE <<>>)
       \o ReplayToolCalls(Tail(steps))

\* whether the engine lets the code through to the sandbox
\* (_validate_imports does not raise)
PassesValidation(user_code) == ValidatorResult[user_code] = <<>>

\* an early return that has already started the server and cleared its
\* trace buffer
RejectImportsLate(eng, ictx, user_code) ==
  [engine     |-> InstallContextAndClear(StartToolServer(eng), ictx),
   result     |-> ValidationFailureResult(ValidatorResult[user_code]),
   dispatched |-> <<>>,
   effects    |-> <<"start_server", "set_context", "clear_traces",
                    "validate">>]

\* an early return that records a failed step in the engine history
RejectImportsRecorded(eng, ictx, user_code) ==
  LET rejected == ValidationFailureResult(ValidatorResult[user_code])
  IN [engine     |-> [eng EXCEPT !.execution_history =
                        Append(@, ExecutionStep(user_code,
                                                rejected.code_result,
                                                rejected))],
      result     |-> rejected,
      dispatched |-> <<>>,
      effects    |-> <<"validate", "append_step">>]

\* an early return after the code was sent to the sandbox all the same
RejectImportsButDispatch(eng, ictx, user_code) ==
  [engine     |-> eng,
   result     |-> ValidationFailureResult(ValidatorResult[user_code]),
   dispatched |-> <<[code |-> user_code.text, replay |-> FALSE]>>,
   effects    |-> <<"validate", "dispatch">>]

\* the early return of execute_code / execute_code_extended when
\* _validate_imports raises: a synthetic result, the engine untouched
RejectImports(eng, ictx, user_code) ==
  [engine     |-> eng,
   result     |-> ValidationFailureResult(ValidatorResult[user_code]),
   dispatched |-> <<>>,
   effects    |-> <<"validate">>]

\* execute_code_extended(invocation_context, code) where the underlying
\* executor answers the new code with sandbox_result: the engine afterwards,
\* the value returned, the calls the underlying executor received and the
\* effects in order
ExecuteCodeExtended(eng, is_stateful, ictx, user_code, sandbox_result) ==
  IF ~PassesValidation(user_code)
  THEN RejectImports(eng, ictx, user_code)
  ELSE LET started  == StartToolServer(eng)
           ready    == InstallContextAndClear(started, ictx)
           replayed == ReplayDispatches(ready, is_stateful)
           extended == ExtractTracesAndAnswer(sandbox_result)
           step     == ExecutionStep(user_code, sandbox_result, extended)
           served   == (IF replayed = <<>> THEN <<>>
                        ELSE ReplayToolCalls(ready.execution_history))
                       \o sandbox_result.tool_calls
           ran      == SelectSeq(served,
                                 LAMBDA t : t.tool_name \in RegisteredTools)
       IN [engine     |-> [ready EXCEPT !.execution_history =
                                          Append(@, step),
                                        !.server_traces = @ \o served,
                                        !.server_tool_context =
                                          IF ran = <<>> THEN @
                                          ELSE ToolContextUsed(ready),
                                        !.ran_with =
                                          [k \in 1..Len(ran) |->
                                             ToolContextUsed(ready)]],
           result     |-> ResultAfterReplay(
                             ReplayLastResult(ready, is_stateful), extended),
           dispatched |-> Append(replayed,
                                 [code |-> user_code.text,
                                  replay |-> FALSE]),
           effects    |-> <<"validate">>
                          \o (IF eng.tool_server THEN <<>>
                              ELSE <<"start_server">>)
                          \o <<"set_context", "clear_traces">>
                          \o [i \in 1..Len(replayed) |-> "replay"]
                          \o <<"dispatch", "append_step">>]

\* CodeExecutionResult(stdout=..., stderr=...) as execute_code returns it,
\* in the shape of the extended result with the extra fields left empty
PlainResult(stdout_text, stderr_text) ==
  [code_result      |-> [stdout |-> LinesOf(stdout_text),
                         stderr |-> stderr_text],
   tool_traces      |-> <<>>,
   final_answer     |-> None,
   has_final_answer |-> FALSE,
   clean_stdout     |-> stdout_text]

\* an execute_code that leaves out the replay of the history
ExecuteCodeWithoutReplay(eng, is_stateful, ictx, user_code, sandbox_result) ==
  LET ext == ExecuteCodeExtended(eng, FALSE, ictx, user_code, sandbox_result)
  IN [ext EXCEPT !.result = PlainResult(ext.result.clean_stdout,
                                        ext.result.code_result.stderr)]

\* execute_code(invocation_context, code), lines 322-397: validation, server
\* start, set_context and clear_traces, replay, dispatch, the step appended,
\* and a plain CodeExecutionResult whose stdout is the marker-free text
ExecuteCode(eng, is_stateful, ictx, user_code, sandbox_result) ==
  IF ~PassesValidation(user_code)
  THEN [engine     |-> eng,
        result     |-> PlainResult("", ImportValidationErrorStr(
                                         ValidatorResult[user_code])),
        dispatched |-> <<>>,
        effects    |-> <<"validate">>]
  ELSE LET started  == StartToolServer(eng)
           ready    == InstallContextAndClear(started, ictx)
           replayed == ReplayDispatches(ready, is_stateful)
           extended == ExtractTracesAndAnswer(sandbox_result)
           step     == ExecutionStep(user_code, sandbox_result, extended)
           served   == (IF replayed = <<>> THEN <<>>
                        ELSE ReplayToolCalls(ready.execution_history))
                       \o sandbox_result.tool_calls
           ran      == SelectSeq(served,
                                 LAMBDA t : t.tool_name \in RegisteredTools)
       IN [engine     |-> [ready EXCEPT !.execution_history =
                                          Append(@, step),
                                        !.server_traces = @ \o served,
                                        !.server_tool_context =
                                          IF ran = <<>> THEN @
                                          ELSE ToolContextUsed(ready),
                                        !.ran_with =
                                          [k \in 1..Len(ran) |->
                                             ToolContextUsed(ready)]],
           result     |-> LET kept == ResultAfterReplay(
                                        ReplayLastResult(ready, is_stateful),
                                        extended)
                          IN PlainResult(kept.clean_stdout,
                                         kept.code_result.stderr),
           dispatched |-> Append(replayed,
                                 [code |-> user_code.text,
                                  replay |-> FALSE]),
           effects    |-> <<"validate">>
                          \o (IF eng.tool_server THEN <<>>
                              ELSE <<"start_server">>)
                          \o <<"set_context", "clear_traces">>
                          \o [i \in 1..Len(replayed) |-> "replay"]
                          \o <<"dispatch", "append_step">>]

\* ------------------------------------------------------------------------
\* ReAct controller (CodingAgent._run_async_impl)
\* ------------------------------------------------------------------------

\* CodingAgentState()
NewState == [iteration_count |-> 0, error_count |-> 0,
             execution_history |-> <<>>]

IterationExhaustedText ==
  "I was unable to complete the task within the allowed iterations."

TooManyErrorsText(stderr) ==
  "I encountered too many errors while executing code. Last error: "
  \o stderr

\* _extract_code_block: first tool_code block, else first python block
\* an extraction that knows tool_code blocks only
ExtractToolCodeOnly(resp) ==
  LET tool == SelectSeq(resp.blocks, LAMBDA b : b.tag = "tool_code")
  IN IF tool # <<>> THEN [found |-> TRUE, code |-> tool[1].body]
     ELSE [found |-> FALSE, code |-> CodeEmpty]

ExtractCodeBlock(resp) ==
  LET tool == SelectSeq(resp.blocks, LAMBDA b : b.tag = "tool_code")
      py   == SelectSeq(resp.blocks, LAMBDA b : b.tag = "python")
  IN IF tool # <<>> THEN [found |-> TRUE, code |-> tool[1].body]
     ELSE IF py # <<>> THEN [found |-> TRUE, code |-> py[1].body]
     ELSE [found |-> FALSE, code |-> CodeEmpty]

\* a turn of the message buffer: the role, which text it is built from
\* (the fixed framing around it is left out) and the texts quoted in it
Turn(role, kind, text, quoted_code) ==
  [role |-> role, kind |-> kind, text |-> text, code |-> quoted_code]

\* _build_error_feedback: quotes the error and the failing code
BuildErrorFeedback(error, failed_code) ==
  Turn("user", "error_feedback", error, failed_code.text)

\* the user turn framed as "Code execution result:"
OutputText(clean_stdout) ==
  Turn("user", "execution_result", clean_stdout, "")

\* a buffer that gets the feedback turn without the model response
AppendFeedbackOnly(buffer, model_turn, feedback) ==
  buffer \o <<feedback>>

\* lines 453-466 and 479-497: contents.append of the model response, then
\* contents.append of the feedback turn
AppendTurns(buffer, model_turn, feedback) ==
  buffer \o <<model_turn, feedback>>

\* an entry numbered from zero
HistoryEntryZeroBased(iter, user_code, result) ==
  [iteration        |-> iter - 1,
   code             |-> user_code.text,
   stdout           |-> result.clean_stdout,
   stderr           |-> result.code_result.stderr,
   tool_traces      |-> result.tool_traces,
   has_final_answer |-> result.has_final_answer]

\* the history entry the controller records for one engine call
HistoryEntry(iter, user_code, result) ==
  [iteration        |-> iter,
   code             |-> user_code.text,
   stdout           |-> result.clean_stdout,
   stderr           |-> result.code_result.stderr,
   tool_traces      |-> result.tool_traces,
   has_final_answer |-> result.has_final_answer]

\* a counter that a successful step leaves as it is
NextErrorCountNoReset(count, failed) == IF failed THEN count + 1 ELSE count

\* lines 438-440 and 469-471: a failing step counts, a successful one resets
NextErrorCount(count, failed) == IF failed THEN count + 1 ELSE 0

\* a test that tolerates one failure more
GiveUpLate(count, retries) == count > retries + 1

\* a test that gives up one failure early
GiveUpEarly(count, retries) == count >= retries

\* the retry budget is used up
GiveUp(count, retries) == count > retries

\* a test that lets a final-answer marker outweigh the error output
StepFailedUnlessAnswered(result) ==
  result.code_result.stderr # "" /\ ~result.has_final_answer

\* line 438: if exec_result.code_result.stderr
StepFailed(result) == result.code_result.stderr # ""

\* a test on the answer value instead of the flag
StepHasTruthyAnswer(result) ==
  result.has_final_answer /\ result.final_answer # None

\* line 474: the step produced a final answer
StepHasFinalAnswer(result) == result.has_final_answer

\* a loop test that stops one turn early
LoopContinuesStopsEarly(iter, max) == iter + 1 < max

\* a loop test that admits one turn too many
LoopContinuesOffByOne(iter, max) == iter <= max

\* the loop test
LoopContinues(iter, max) == iter < max

\* final_answer is None: nothing was set
NoFinalAnswer(answer) == answer = None

\* the text of the terminal event
FinalText(answer) ==
  LET set == IF NoFinalAnswer(answer) THEN PyStr(IterationExhaustedText)
             ELSE answer
  IN IF IsStr(set) THEN set.v ELSE JsonDumps(set)

NoResult == ValidationFailureResult(<<>>)

\* the engine holds no ToolExecutionServer (self._tool_server is None);
\* the counters tell what has been created and cleared so far
NoServer ==
  [exists          |-> FALSE,
   thread_alive    |-> FALSE,
   traces          |-> <<>>,
   objects         |-> 0,
   uvicorn_servers |-> 0,
   threads         |-> 0,
   stops           |-> 0,
   clears          |-> 0]

\* the agent, its engine and the controller before the first invocation
\* nothing constructed yet
NoConstruction ==
  [class |-> "none", max_iterations |-> 0, error_retry_attempts |-> 0,
   tool_server_port |-> 0, accepted |-> FALSE]

\* no execution with a final answer under observation
NoAnswerResult == [recovered |-> None, has_final_answer |-> FALSE,
                   clean_stdout |-> "", event_text |-> ""]

\* _extract_code_block returning None
NoMatch == [found |-> FALSE, code |-> <<>>]

\* no call of is_import_allowed under observation
NoImportCheck ==
  /\ import_name = <<>>
  /\ allowlist = {}
  /\ checked = FALSE
  /\ allowed = FALSE
  /\ source = CodeEmpty
  /\ violation_list = <<>>
  /\ reply = <<>>
  /\ extracted = NoMatch
  /\ answer_value = <<>>
  /\ answer_result = NoAnswerResult
  /\ construction = NoConstruction

InitialAgent ==
  /\ coding_executor = FALSE
  /\ engine = NewEngine
  /\ agent_states = [present |-> FALSE, state |-> NewState]
  /\ pc = "idle"
  /\ ctx = NoCtx
  /\ state = NewState
  /\ iteration = 0
  /\ error_count = 0
  /\ final_answer = None
  /\ contents = <<>>
  /\ response_text = ""
  /\ code = CodeEmpty
  /\ exec_result = NoResult
  /\ events = <<>>
  /\ llm_calls = 0
  /\ loaded_steps = 0
  /\ dispatched = <<>>
  /\ effects = <<>>
  /\ engine_calls = 0
  /\ last_call = "none"
  /\ server = NoServer
  /\ requests = <<>>
  /\ sandbox_buffer = <<>>
  /\ tool_runs = {}

Init ==
  /\ max_iterations \in 1..MaxIter
  /\ error_retry_attempts \in 0..MaxRetry
  /\ stateful \in BOOLEAN
  /\ InitialAgent
  /\ NoImportCheck
  /\ calls_left = MaxTotalCalls

\* lines 351-379: load the state, get the engine, install the context,
\* seed the message buffer
StartInvocation ==
  /\ pc \in {"idle", "done"}
  /\ engine_calls = 0
  /\ max_iterations <= calls_left
  /\ \E resumed \in BOOLEAN :
       /\ resumed => agent_states.present
       /\ state' = IF resumed THEN agent_states.state ELSE NewState
  /\ loaded_steps' = Len(state'.execution_history)
  /\ ctx' = ctx + 1
  /\ coding_executor' = TRUE
  /\ engine' = EngineSetContext(IF coding_executor THEN engine ELSE NewEngine,
                                ctx', ctx')
  /\ contents' = <<Turn("user", "event", "task", "")>>
  /\ iteration' = 0
  /\ error_count' = 0
  /\ final_answer' = None
  /\ response_text' = ""
  /\ code' = CodeEmpty
  /\ exec_result' = NoResult
  /\ events' = <<>>
  /\ llm_calls' = 0
  /\ dispatched' = <<>>
  /\ effects' = <<>>
  /\ pc' = "loop"
  /\ UNCHANGED <<config_vars, matcher_vars, ipc_vars, agent_states, calls_left, engine_calls,
                 last_call>>

\* lines 381-416: the loop test passes, the LLM is called, the code block
\* is extracted
Generate ==
  /\ pc = "loop"
  /\ LoopContinues(iteration, max_iterations)
  /\ iteration' = iteration + 1
  /\ state' = [state EXCEPT !.iteration_count = iteration']
  /\ llm_calls' = llm_calls + 1
  /\ calls_left' = calls_left - 1
  /\ \E resp \in Responses :
       LET block == ExtractCodeBlock(resp)
       IN /\ response_text' = resp.text
          /\ code' = block.code
          /\ IF ~block.found \/ block.code.text = ""
             THEN /\ final_answer' = PyStr(resp.text)
                  /\ pc' = "finish"
             ELSE /\ final_answer' = final_answer
                  /\ pc' = "execute"
  /\ UNCHANGED <<config_vars, matcher_vars, ipc_vars, coding_executor, engine, agent_states, ctx,
                 error_count, contents, exec_result, events, loaded_steps,
                 dispatched, effects, engine_calls, last_call>>

\* line 381: the loop test fails
LoopExit ==
  /\ pc = "loop"
  /\ ~LoopContinues(iteration, max_iterations)
  /\ pc' = "finish"
  /\ UNCHANGED <<config_vars, matcher_vars, ipc_vars, coding_executor, engine, agent_states, ctx,
                 state, iteration, error_count, final_answer, contents,
                 response_text, code, exec_result, events, llm_calls,
                 calls_left, loaded_steps, dispatched, effects, engine_calls,
                 last_call>>

\* lines 418-497: run the engine on the code, record the step, then the
\* error path, the final answer, or the next turn
Execute ==
  /\ pc = "execute"
  /\ \E sandbox_result \in SandboxResults :
       LET call   == ExecuteCodeExtended(engine, stateful, ctx, code,
                                         sandbox_result)
           result == call.result
           failed == StepFailed(result)
           count  == NextErrorCount(error_count, failed)
           model_turn == Turn("model", "response", response_text, "")
       IN /\ engine' = call.engine
          /\ exec_result' = result
          /\ dispatched' = dispatched \o call.dispatched
          /\ effects' = call.effects
          /\ error_count' = count
          /\ state' = [state EXCEPT
                         !.execution_history =
                           Append(@, HistoryEntry(iteration, code, result)),
                         !.error_count = count]
          /\ IF failed
             THEN IF GiveUp(count, error_retry_attempts)
                  THEN /\ final_answer' =
                            PyStr(TooManyErrorsText(result.code_result.stderr))
                       /\ contents' = contents
                       /\ pc' = "finish"
                  ELSE /\ final_answer' = final_answer
                       /\ contents' =
                            AppendTurns(contents, model_turn,
                              BuildErrorFeedback(result.code_result.stderr,
                                                 code))
                       /\ pc' = "loop"
             ELSE IF StepHasFinalAnswer(result)
                  THEN /\ final_answer' = result.final_answer
                       /\ contents' = contents
                       /\ pc' = "finish"
                  ELSE /\ final_answer' = final_answer
                       /\ contents' =
                            AppendTurns(contents, model_turn,
                                        OutputText(result.clean_stdout))
                       /\ pc' = "loop"
  /\ UNCHANGED <<config_vars, matcher_vars, ipc_vars, coding_executor, agent_states, ctx, iteration,
                 response_text, code, events, llm_calls, calls_left,
                 loaded_steps,
                 engine_calls, last_call>>

\* a final event that carries the state as it was loaded, not as updated
FinishStaleState ==
  /\ pc = "finish"
  /\ agent_states' = [present |-> TRUE, state |-> state]
  /\ events' = Append(events, [text |-> FinalText(final_answer),
                               agent_state |-> agent_states.state])
  /\ pc' = "done"
  /\ UNCHANGED <<config_vars, matcher_vars, ipc_vars, coding_executor, engine, ctx, state, iteration,
                 error_count, final_answer, contents, response_text, code,
                 exec_result, llm_calls, calls_left, loaded_steps,
                 dispatched, effects,
                 engine_calls, last_call>>

\* lines 499-529: default answer, serialization, state saved, event yielded
Finish ==
  /\ pc = "finish"
  /\ agent_states' = [present |-> TRUE, state |-> state]
  /\ events' = Append(events, [text |-> FinalText(final_answer),
                               agent_state |-> state])
  /\ pc' = "done"
  /\ UNCHANGED <<config_vars, matcher_vars, ipc_vars, coding_executor, engine, ctx, state, iteration,
                 error_count, final_answer, contents, response_text, code,
                 exec_result, llm_calls, calls_left, loaded_steps,
                 dispatched, effects,
                 engine_calls, last_call>>

Next ==
  \/ StartInvocation
  \/ Generate
  \/ LoopExit
  \/ Execute
  \/ Finish

Spec == Init /\ [][Next]_vars

\* a step of a started invocation (at most one of them is enabled);
\* every LLM call and every sandbox execution returns and the controller
\* runs on, so the step of a started invocation is eventually taken
ControllerStep == Generate \/ LoopExit \/ Execute \/ Finish

\* Init with the budget of the termination runs
FairInit ==
  /\ max_iterations \in 1..MaxIter
  /\ error_retry_attempts \in 0..MaxRetry
  /\ stateful \in BOOLEAN
  /\ InitialAgent
  /\ NoImportCheck
  /\ calls_left = MaxFairCalls

FairSpec == FairInit /\ [][Next]_vars /\ WF_vars(ControllerStep)

\* ------------------------------------------------------------------------
\* The engine driven directly by a caller (its public entry points)
\* ------------------------------------------------------------------------

\* set_context(invocation_context, tool_context) with a new context
HarnessSetContext ==
  /\ engine_calls < MaxEngineCalls
  /\ engine_calls' = engine_calls + 1
  /\ last_call' = "set_context"
  /\ ctx' = ctx + 1
  /\ engine' = EngineSetContext(engine, ctx', ctx')
  /\ UNCHANGED <<config_vars, matcher_vars, ipc_vars, coding_executor, agent_states, pc, state,
                 iteration, error_count, final_answer, contents,
                 response_text, code, exec_result, events, llm_calls,
                 calls_left, loaded_steps, dispatched, effects>>

\* execute_code(invocation_context, CodeExecutionInput(code))
HarnessExecuteCode ==
  /\ engine_calls < MaxEngineCalls
  /\ engine_calls' = engine_calls + 1
  /\ last_call' = "execute_code"
  /\ \E user_code \in Codes, sandbox_result \in HarnessResults :
       LET call == ExecuteCode(engine, stateful, ctx, user_code,
                               sandbox_result)
       IN /\ code' = user_code
          /\ engine' = call.engine
          /\ exec_result' = call.result
          /\ dispatched' = call.dispatched
          /\ effects' = call.effects
  /\ UNCHANGED <<config_vars, matcher_vars, ipc_vars, coding_executor, agent_states, pc, ctx, state,
                 iteration, error_count, final_answer, contents,
                 response_text, events, llm_calls, calls_left, loaded_steps>>

\* execute_code_extended(invocation_context, CodeExecutionInput(code))
HarnessExecuteCodeExtended ==
  /\ engine_calls < MaxEngineCalls
  /\ engine_calls' = engine_calls + 1
  /\ last_call' = "execute_code_extended"
  /\ \E user_code \in Codes, sandbox_result \in HarnessResults :
       LET call == ExecuteCodeExtended(engine, stateful, ctx, user_code,
                                       sandbox_result)
       IN /\ code' = user_code
          /\ engine' = call.engine
          /\ exec_result' = call.result
          /\ dispatched' = call.dispatched
          /\ effects' = call.effects
  /\ UNCHANGED <<config_vars, matcher_vars, ipc_vars, coding_executor, agent_states, pc, ctx, state,
                 iteration, error_count, final_answer, contents,
                 response_text, events, llm_calls, calls_left, loaded_steps>>

\* cleanup()
HarnessCleanup ==
  /\ engine_calls < MaxEngineCalls
  /\ engine_calls' = engine_calls + 1
  /\ last_call' = "cleanup"
  /\ engine' = EngineCleanup(engine)
  /\ UNCHANGED <<config_vars, matcher_vars, ipc_vars, coding_executor, agent_states, pc, ctx, state,
                 iteration, error_count, final_answer, contents,
                 response_text, code, exec_result, events, llm_calls,
                 calls_left, loaded_steps, dispatched, effects>>

EngineNext ==
  \/ HarnessSetContext
  \/ HarnessExecuteCode
  \/ HarnessExecuteCodeExtended
  \/ HarnessCleanup

\* execute_code_extended over the adapter that starts a fresh interpreter
\* for every call, replays included
SessionExecuteCodeExtended ==
  /\ engine_calls < MaxEngineCalls
  /\ engine_calls' = engine_calls + 1
  /\ last_call' = "session_execute"
  /\ \E user_code \in SessionCodes, ictx \in {ctx, ctx + 1} :
       LET call == ExecuteCodeExtended(engine, stateful, ictx, user_code,
                                       FreshExecute(user_code))
       IN /\ code' = user_code
          /\ ctx' = ictx
          /\ engine' = call.engine
          /\ exec_result' = call.result
          /\ dispatched' = call.dispatched
          /\ effects' = call.effects
  /\ UNCHANGED <<config_vars, matcher_vars, ipc_vars, coding_executor, agent_states, pc, state,
                 iteration, error_count, final_answer, contents,
                 response_text, events, llm_calls, calls_left, loaded_steps>>

\* execute_code over the same adapter
SessionExecuteCode ==
  /\ engine_calls < MaxEngineCalls
  /\ engine_calls' = engine_calls + 1
  /\ last_call' = "session_execute_code"
  /\ \E user_code \in SessionCodes, ictx \in {ctx, ctx + 1} :
       LET call == ExecuteCode(engine, stateful, ictx, user_code,
                               FreshExecute(user_code))
       IN /\ code' = user_code
          /\ ctx' = ictx
          /\ engine' = call.engine
          /\ exec_result' = call.result
          /\ dispatched' = call.dispatched
          /\ effects' = call.effects
  /\ UNCHANGED <<config_vars, matcher_vars, ipc_vars, coding_executor, agent_states, pc, state,
                 iteration, error_count, final_answer, contents,
                 response_text, events, llm_calls, calls_left, loaded_steps>>

SessionNext ==
  \/ SessionExecuteCodeExtended
  \/ SessionExecuteCode
  \/ HarnessSetContext
  \/ HarnessCleanup

\* the engine does not read the controller bounds: they are fixed here
EngineInit == Init /\ max_iterations = 1 /\ error_retry_attempts = 0

EngineSpec == EngineInit /\ [][EngineNext]_vars

SessionSpec == EngineInit /\ [][SessionNext]_vars

\* ------------------------------------------------------------------------
\* The tool server under concurrent /tool_call requests
\* ------------------------------------------------------------------------

\* a start() without the test for a live server thread
ToolServerStartAlways(srv) ==
  [srv EXCEPT !.thread_alive = TRUE,
              !.uvicorn_servers = @ + 1,
              !.threads = @ + 1]

\* ToolExecutionServer.start: nothing while the server thread is alive,
\* else a new uvicorn server in a new thread
ToolServerStart(srv) ==
  IF srv.thread_alive THEN srv
  ELSE [srv EXCEPT !.thread_alive = TRUE,
                   !.uvicorn_servers = @ + 1,
                   !.threads = @ + 1]

\* CodingAgentCodeExecutor._start_tool_server: nothing when the engine
\* holds a server, else a new ToolExecutionServer that is started
StartToolServerOnce(srv) ==
  IF srv.exists THEN srv
  ELSE ToolServerStart([srv EXCEPT !.exists = TRUE,
                                   !.thread_alive = FALSE,
                                   !.traces = <<>>,
                                   !.uvicorn_servers = 0,
                                   !.threads = 0,
                                   !.objects = @ + 1])

\* _stop_tool_server: stop() and self._tool_server = None
StopToolServer(srv) ==
  IF srv.exists
  THEN [srv EXCEPT !.exists = FALSE,
                   !.thread_alive = FALSE,
                   !.traces = <<>>,
                   !.stops = @ + 1]
  ELSE srv

\* an append that skips the traces of failed calls
RecordTraceOnSuccess(traces, trace) ==
  IF trace.success THEN Append(traces, trace) ELSE traces

\* self.traces.append(trace)
RecordTrace(traces, trace) == Append(traces, trace)

\* the trace of request i as the server records it
ServerTraceOf(i, response) ==
  [id        |-> i,
   tool_name |-> response.trace.tool_name,
   args      |-> response.trace.args,
   success   |-> response.trace.success,
   error     |-> response.trace.error]

\* the entry the sandbox buffer gets for request i
SandboxTraceOf(i, tool_name, status) ==
  [id        |-> i,
   tool_name |-> tool_name,
   args      |-> "query=q",
   success   |-> SandboxTrace(tool_name, status).success]

\* the requests the server has received and not yet answered
InFlight == {i \in 1..Len(requests) : requests[i].pc \in {"sent", "running"}}

\* a call of an entry point of the engine or the server
ApiCall(name) ==
  /\ engine_calls < MaxEngineCalls
  /\ engine_calls' = engine_calls + 1
  /\ last_call' = name
  /\ UNCHANGED <<config_vars, matcher_vars, agent_vars>>

\* the engine ensures its server is running (before each dispatch)
CallStartToolServer ==
  /\ ApiCall("_start_tool_server")
  /\ server' = StartToolServerOnce(server)
  /\ UNCHANGED <<requests, sandbox_buffer, tool_runs>>

\* start() called on the server the engine holds
CallStart ==
  /\ server.exists
  /\ ApiCall("start")
  /\ server' = ToolServerStart(server)
  /\ UNCHANGED <<requests, sandbox_buffer, tool_runs>>

\* cleanup of the engine, between sandbox executions
CallStopToolServer ==
  /\ InFlight = {}
  /\ ApiCall("_stop_tool_server")
  /\ server' = StopToolServer(server)
  /\ UNCHANGED <<requests, sandbox_buffer, tool_runs>>

\* clear_traces() or DELETE /tool_trace
CallClearTraces ==
  /\ server.exists
  /\ ApiCall("clear_traces")
  /\ server' = [server EXCEPT !.traces = <<>>, !.clears = @ + 1]
  /\ UNCHANGED <<requests, sandbox_buffer, tool_runs>>

\* the server thread ends although stop() was not called (serve() returns)
ThreadExits ==
  /\ server.exists
  /\ server.thread_alive
  /\ InFlight = {}
  /\ ApiCall("thread_exit")
  /\ server' = [server EXCEPT !.thread_alive = FALSE]
  /\ UNCHANGED <<requests, sandbox_buffer, tool_runs>>

\* _call_adk_tool in some thread of the sandbox program posts a request
IssueRequest ==
  /\ server.exists
  /\ server.thread_alive
  /\ Len(requests) < MaxRequests
  /\ \E tool_name \in {"search", "flaky", "lookup"} :
       requests' = Append(requests, [tool_name |-> tool_name, pc |-> "sent",
                                     status |-> 0, error |-> ""])
  /\ UNCHANGED <<config_vars, matcher_vars, agent_vars, engine_calls, last_call, server,
                 sandbox_buffer, tool_runs>>

\* _execute_tool up to its await: the lookup, and either the 404 answer or
\* the call of tool.run_async
HandleRequest ==
  /\ server.thread_alive
  /\ \E i \in 1..Len(requests) :
       /\ requests[i].pc = "sent"
       /\ IF requests[i].tool_name \notin RegisteredTools
          THEN LET response == ExecuteTool(requests[i].tool_name)
               IN /\ server' = [server EXCEPT !.traces =
                       RecordTrace(@, ServerTraceOf(i, response))]
                  /\ requests' = [requests EXCEPT
                                    ![i].pc = "responded",
                                    ![i].status = response.status,
                                    ![i].error = response.error]
                  /\ tool_runs' = tool_runs
          ELSE /\ requests' = [requests EXCEPT ![i].pc = "running"]
               /\ tool_runs' = tool_runs \cup {i}
               /\ server' = server
  /\ UNCHANGED <<config_vars, matcher_vars, agent_vars, engine_calls, last_call,
                 sandbox_buffer>>

\* _execute_tool after its await: the tool returned or raised, the trace is
\* appended and the request answered
ToolReturns ==
  /\ server.thread_alive
  /\ \E i \in 1..Len(requests) :
       /\ requests[i].pc = "running"
       /\ LET response == ExecuteTool(requests[i].tool_name)
          IN /\ server' = [server EXCEPT !.traces =
                  RecordTrace(@, ServerTraceOf(i, response))]
             /\ requests' = [requests EXCEPT
                               ![i].pc = "responded",
                               ![i].status = response.status,
                               ![i].error = response.error]
  /\ UNCHANGED <<config_vars, matcher_vars, agent_vars, engine_calls, last_call,
                 sandbox_buffer, tool_runs>>

\* _call_adk_tool gets the response and appends to __ADK_TOOL_TRACES
ReceiveResponse ==
  /\ \E i \in 1..Len(requests) :
       /\ requests[i].pc = "responded"
       /\ sandbox_buffer' =
            Append(sandbox_buffer,
                   SandboxTraceOf(i, requests[i].tool_name,
                                  requests[i].status))
       /\ requests' = [requests EXCEPT ![i].pc = "done"]
  /\ UNCHANGED <<config_vars, matcher_vars, agent_vars, engine_calls, last_call, server,
                 tool_runs>>

ServerNext ==
  \/ CallStartToolServer
  \/ CallStart
  \/ CallStopToolServer
  \/ CallClearTraces
  \/ ThreadExits
  \/ IssueRequest
  \/ HandleRequest
  \/ ToolReturns
  \/ ReceiveResponse

ServerInit == EngineInit /\ stateful = FALSE

ServerSpec == ServerInit /\ [][ServerNext]_vars

\* ------------------------------------------------------------------------
\* is_import_allowed applied to names and allowlists
\* ------------------------------------------------------------------------

NameAlphabet == {"a", "b", "."}

\* the strings over the alphabet of at most n characters
StringsUpTo(n) == UNION {[1..k -> NameAlphabet] : k \in 1..n}

\* a dotted module name: identifiers joined by single dots
IsDottedName(s) ==
  /\ Len(s) > 0
  /\ s[1] # "." /\ s[Len(s)] # "."
  /\ \A k \in 1..(Len(s) - 1) : ~(s[k] = "." /\ s[k + 1] = ".")

DottedNames(n) == {s \in StringsUpTo(n) : IsDottedName(s)}

\* the wildcard pattern of a module name
Wildcard(p) == p \o <<".", "*">>

\* exact and wildcard allowlist entries
AllowlistEntries ==
  DottedNames(MaxBaseLen) \cup {Wildcard(p) : p \in DottedNames(MaxBaseLen)}

\* allowlists of one or two entries
Allowlists ==
  {{e1, e2} : e1 \in AllowlistEntries, e2 \in AllowlistEntries}

ImportInit ==
  /\ max_iterations = 1
  /\ error_retry_attempts = 0
  /\ stateful = FALSE
  /\ InitialAgent
  /\ calls_left = 0
  /\ import_name \in DottedNames(MaxNameLen)
  /\ allowlist \in Allowlists
  /\ checked = FALSE
  /\ allowed = FALSE
  /\ source = CodeEmpty
  /\ violation_list = <<>>
  /\ reply = <<>>
  /\ extracted = NoMatch
  /\ answer_value = <<>>
  /\ answer_result = NoAnswerResult
  /\ construction = NoConstruction

\* one call is_import_allowed(import_name, allowlist)
CheckImport ==
  /\ ~checked
  /\ checked' = TRUE
  /\ allowed' = is_import_allowed(import_name, allowlist)
  /\ UNCHANGED <<config_vars, agent_vars, ipc_vars, engine_calls, last_call,
                 import_name, allowlist, source, violation_list, reply,
                 extracted, answer_value, answer_result, construction>>

ImportSpec == ImportInit /\ [][CheckImport]_vars

\* ------------------------------------------------------------------------
\* validate_imports applied to codes and allowlists
\* ------------------------------------------------------------------------

\* module names of the statements; the empty one is that of a relative
\* import (node.module or "")
StatementModules == {<<"a">>, <<"a", ".", "b">>, <<"b">>}

RelativeModule == <<>>

ImportedNames == {<<"b">>, <<"c">>}

\* the import statements a code may have on the given line
StatementsAt(line) ==
  {PlainImport(m, line) : m \in StatementModules}
  \cup {FromImport(m, n, line) :
          m \in StatementModules \cup {RelativeModule}, n \in ImportedNames}

AllStatements == UNION {StatementsAt(line) : line \in 1..MaxStatements}

\* the source text of an import statement
StatementText(imp) ==
  IF imp.is_from_import
  THEN "from " \o (IF imp.module = RelativeModule THEN "."
                   ELSE Str(imp.module))
       \o " import " \o Str(imp.names[1])
  ELSE "import " \o Str(imp.module)

\* codes of up to MaxStatements import statements, one per line, the
\* invalid ones ending in a line that does not parse
ImportCodes ==
  {[text      |-> JoinWith("\n", [k \in 1..Len(stmts) |->
                                    StatementText(stmts[k])])
                  \o (IF ok THEN "" ELSE "\ndef ("),
    syntax_ok |-> ok,
    imports   |-> stmts] :
     ok \in BOOLEAN,
     stmts \in UNION {{f \in [1..n -> AllStatements] :
                         \A k \in 1..n : f[k].line_number = k}
                       : n \in 1..MaxStatements}}

\* entries of the allowlists, the empty string among them
ValidatorEntries ==
  {<<>>, <<"a">>, <<"a", ".", "*">>, <<"a", ".", "b">>, <<"b">>, <<"c">>}

ValidatorAllowlists ==
  {{}} \cup {{e1, e2} : e1 \in ValidatorEntries, e2 \in ValidatorEntries}

ValidateInit ==
  /\ max_iterations = 1
  /\ error_retry_attempts = 0
  /\ stateful = FALSE
  /\ InitialAgent
  /\ calls_left = 0
  /\ import_name = <<>>
  /\ allowed = FALSE
  /\ checked = FALSE
  /\ violation_list = <<>>
  /\ source \in ImportCodes
  /\ allowlist \in ValidatorAllowlists
  /\ reply = <<>>
  /\ extracted = NoMatch
  /\ answer_value = <<>>
  /\ answer_result = NoAnswerResult
  /\ construction = NoConstruction

\* one call validate_imports(source, allowlist)
ValidateImports ==
  /\ ~checked
  /\ checked' = TRUE
  /\ violation_list' = validate_imports(source, allowlist)
  /\ UNCHANGED <<config_vars, agent_vars, ipc_vars, engine_calls, last_call,
                 import_name, allowlist, allowed, source, reply,
                 extracted, answer_value, answer_result, construction>>

ValidateSpec == ValidateInit /\ [][ValidateImports]_vars

\* ------------------------------------------------------------------------
\* _extract_code_block applied to response texts
\* ------------------------------------------------------------------------

\* A response text is a sequence of pieces: fence markers, line ends and
\* pieces of prose or code that hold no backquote.
FenceOf(tag) == "~~~" \o tag \o "\n"

ClosingFence == "~~~"

BlockTags == {"tool_code", "python", "json"}

IsFence(piece) == piece = ClosingFence \/ \E tag \in BlockTags : piece = FenceOf(tag)

IsSpace(piece) == piece \in {"\n", " "}

\* the bodies of the fenced blocks, as written between the fences
BlockBodies == {<<"A", "\n">>, <<" ", "B", "\n", "C", "\n">>}

\* the text of a response that holds the given fenced blocks, each after a
\* line of prose
RECURSIVE Render(_)
Render(blocks) ==
  IF blocks = <<>> THEN <<"Done.">>
  ELSE <<"Code:", "\n", FenceOf(Head(blocks).tag)>> \o Head(blocks).body
       \o <<ClosingFence, "\n">> \o Render(Tail(blocks))

\* responses of up to MaxBlocks fenced blocks
Replies ==
  {[blocks |-> bs, text |-> Render(bs)] :
     bs \in UNION {[1..n -> [tag : BlockTags, body : BlockBodies]]
                   : n \in 0..MaxBlocks}}

RECURSIVE Strip(_)
\* str.strip(): the text without leading and trailing white space
Strip(text) ==
  IF text = <<>> THEN <<>>
  ELSE IF IsSpace(Head(text)) THEN Strip(Tail(text))
  ELSE IF IsSpace(text[Len(text)]) THEN Strip(SubSeq(text, 1, Len(text) - 1))
  ELSE text

\* re.search(FENCE + "(.*?)~~~", text, re.DOTALL): the leftmost opening
\* fence that some fence marker follows, group 1 reaching to the nearest one
RegexSearch(text, fence) ==
  LET starts == {i \in 1..Len(text) :
                   /\ text[i] = fence
                   /\ \E j \in (i + 1)..Len(text) : IsFence(text[j])}
  IN IF starts = {} THEN [matched |-> FALSE, group1 |-> <<>>]
     ELSE LET i == CHOOSE k \in starts : \A m \in starts : k <= m
              ends == {j \in (i + 1)..Len(text) : IsFence(text[j])}
              j == CHOOSE k \in ends : \A m \in ends : k <= m
          IN [matched |-> TRUE, group1 |-> SubSeq(text, i + 1, j - 1)]

\* an extraction that tries the python blocks first
extract_code_block_python_first(text) ==
  LET tool == RegexSearch(text, FenceOf("tool_code"))
      py   == RegexSearch(text, FenceOf("python"))
  IN IF py.matched THEN [found |-> TRUE, code |-> Strip(py.group1)]
     ELSE IF tool.matched THEN [found |-> TRUE, code |-> Strip(tool.group1)]
     ELSE NoMatch

\* CodingAgent._extract_code_block
extract_code_block(text) ==
  LET tool == RegexSearch(text, FenceOf("tool_code"))
      py   == RegexSearch(text, FenceOf("python"))
  IN IF tool.matched THEN [found |-> TRUE, code |-> Strip(tool.group1)]
     ELSE IF py.matched THEN [found |-> TRUE, code |-> Strip(py.group1)]
     ELSE NoMatch

ExtractInit ==
  /\ max_iterations = 1
  /\ error_retry_attempts = 0
  /\ stateful = FALSE
  /\ InitialAgent
  /\ calls_left = 0
  /\ import_name = <<>>
  /\ allowlist = {}
  /\ allowed = FALSE
  /\ checked = FALSE
  /\ source = CodeEmpty
  /\ violation_list = <<>>
  /\ reply \in Replies
  /\ extracted = NoMatch
  /\ answer_value = <<>>
  /\ answer_result = NoAnswerResult
  /\ construction = NoConstruction

\* one call self._extract_code_block(response_text)
ExtractCode ==
  /\ ~checked
  /\ checked' = TRUE
  /\ extracted' = extract_code_block(reply.text)
  /\ UNCHANGED <<config_vars, agent_vars, ipc_vars, engine_calls, last_call,
                 import_name, allowlist, allowed, source, violation_list,
                 reply, answer_value, answer_result, construction>>

ExtractSpec == ExtractInit /\ [][ExtractCode]_vars

\* ------------------------------------------------------------------------
\* final_answer(s) of the runtime header, decoded by the engine
\* ------------------------------------------------------------------------

\* the lines a string passed to final_answer may consist of
AnswerLines ==
  {"done", "42", "null", "\"x\"", "", "x", "a b", "The answer is 4."}

\* strings of up to MaxAnswerLines lines
AnswerStrings == UNION {[1..n -> AnswerLines] : n \in 1..MaxAnswerLines}

\* the string whose lines are given
StringOf(lines) == JoinWith("\n", lines)

\* print("__FINAL_ANSWER__:" + result) for a string result: the marker
\* stands before the first line only
PrintFinalAnswer(lines) ==
  <<FinalLine(lines[1])>>
  \o [k \in 1..(Len(lines) - 1) |-> TextLine(lines[k + 1])]

\* what the sandbox reports for user code that calls final_answer(s) once
\* and ends: the marker output and the trace line of the epilogue
ResFinalAnswer(lines) ==
  [stdout |-> PrintFinalAnswer(lines) \o <<TraceLine(<<>>)>>, stderr |-> "",
   tool_calls |-> <<>>]

AnswerInit ==
  /\ max_iterations = 1
  /\ error_retry_attempts = 0
  /\ stateful = FALSE
  /\ InitialAgent
  /\ calls_left = 0
  /\ import_name = <<>>
  /\ allowlist = {}
  /\ allowed = FALSE
  /\ checked = FALSE
  /\ source = CodeEmpty
  /\ violation_list = <<>>
  /\ reply = <<>>
  /\ extracted = NoMatch
  /\ answer_value \in AnswerStrings
  /\ answer_result = NoAnswerResult
  /\ construction = NoConstruction

\* the execution is decoded by the engine and, being a step with a final
\* answer and empty stderr, ends the loop with the terminal event
DecodeAnswer ==
  /\ ~checked
  /\ checked' = TRUE
  /\ LET result == ExtractTracesAndAnswer(ResFinalAnswer(answer_value))
     IN answer_result' =
          [recovered        |-> result.final_answer,
           has_final_answer |-> StepHasFinalAnswer(result),
           clean_stdout     |-> result.clean_stdout,
           event_text       |-> FinalText(result.final_answer)]
  /\ UNCHANGED <<config_vars, agent_vars, ipc_vars, engine_calls, last_call,
                 import_name, allowlist, allowed, source, violation_list,
                 reply, extracted, answer_value, construction>>

AnswerSpec == AnswerInit /\ [][DecodeAnswer]_vars

\* ------------------------------------------------------------------------
\* Construction of CodingAgentConfig and CodingAgent
\* ------------------------------------------------------------------------

\* Field(ge=..., le=...) of CodingAgentConfig
MaxIterationsGe == 1

MaxIterationsLe == 100

ErrorRetryAttemptsGe == 0

ErrorRetryAttemptsLe == 10

ToolServerPortGe == 1024

ToolServerPortLe == 65535

\* the values around the limits of a field
Around(ge, le) == {ge - 1, ge, le, le + 1}

\* pydantic validation of CodingAgentConfig: every Field constraint holds
ConfigAccepts(mi, era, port) ==
  /\ mi >= MaxIterationsGe /\ mi <= MaxIterationsLe
  /\ era >= ErrorRetryAttemptsGe /\ era <= ErrorRetryAttemptsLe
  /\ port >= ToolServerPortGe /\ port <= ToolServerPortLe

\* pydantic validation of CodingAgent: the three fields are plain int
\* fields and _validate_model returns self
AgentAccepts(mi, era, port) == TRUE

ConstructInit ==
  /\ max_iterations = 1
  /\ error_retry_attempts = 0
  /\ stateful = FALSE
  /\ InitialAgent
  /\ NoImportCheck
  /\ calls_left = 0

\* CodingAgentConfig(name=..., max_iterations=mi, ...)
ConstructConfig ==
  /\ construction.class = "none"
  /\ \E mi \in Around(MaxIterationsGe, MaxIterationsLe),
        era \in Around(ErrorRetryAttemptsGe, ErrorRetryAttemptsLe),
        port \in Around(ToolServerPortGe, ToolServerPortLe) :
       construction' =
         [class |-> "CodingAgentConfig", max_iterations |-> mi,
          error_retry_attempts |-> era, tool_server_port |-> port,
          accepted |-> ConfigAccepts(mi, era, port)]
  /\ UNCHANGED <<config_vars, agent_vars, ipc_vars, engine_calls, last_call,
                 import_name, allowlist, checked, allowed, source,
                 violation_list, reply, extracted, answer_value,
                 answer_result>>

\* CodingAgent(name=..., max_iterations=mi, ...)
ConstructAgent ==
  /\ construction.class = "none"
  /\ \E mi \in Around(MaxIterationsGe, MaxIterationsLe),
        era \in Around(ErrorRetryAttemptsGe, ErrorRetryAttemptsLe),
        port \in Around(ToolServerPortGe, ToolServerPortLe) :
       construction' =
         [class |-> "CodingAgent", max_iterations |-> mi,
          error_retry_attempts |-> era, tool_server_port |-> port,
          accepted |-> AgentAccepts(mi, era, port)]
  /\ UNCHANGED <<config_vars, agent_vars, ipc_vars, engine_calls, last_call,
                 import_name, allowlist, checked, allowed, source,
                 violation_list, reply, extracted, answer_value,
                 answer_result>>

ConstructNext == ConstructConfig \/ ConstructAgent

ConstructSpec == ConstructInit /\ [][ConstructNext]_vars

\* ------------------------------------------------------------------------
\* Default allowlists
\* ------------------------------------------------------------------------

RECURSIVE Dotted(_)
\* the dotted name with the given segments; a segment is kept as one
\* element, which is_import_allowed only compares with ".", "*" and other
\* elements
Dotted(segments) ==
  IF Len(segments) <= 1 THEN segments
  ELSE <<Head(segments), ".">> \o Dotted(Tail(segments))

\* DEFAULT_SAFE_IMPORTS of allowlist_validator.py, the default of the
\* field authorized_imports of CodingAgent and of the engine
DEFAULT_SAFE_IMPORTS ==
  {Dotted(<<"json">>),
   Dotted(<<"math">>),
   Dotted(<<"re">>),
   Dotted(<<"datetime">>),
   Dotted(<<"collections">>),
   Dotted(<<"collections", "*">>),
   Dotted(<<"itertools">>),
   Dotted(<<"functools">>),
   Dotted(<<"operator">>),
   Dotted(<<"string">>),
   Dotted(<<"textwrap">>),
   Dotted(<<"unicodedata">>),
   Dotted(<<"decimal">>),
   Dotted(<<"fractions">>),
   Dotted(<<"random">>),
   Dotted(<<"statistics">>),
   Dotted(<<"typing">>),
   Dotted(<<"typing", "*">>),
   Dotted(<<"dataclasses">>),
   Dotted(<<"enum">>),
   Dotted(<<"abc">>),
   Dotted(<<"copy">>),
   Dotted(<<"pprint">>),
   Dotted(<<"reprlib">>),
   Dotted(<<"numbers">>),
   Dotted(<<"cmath">>),
   Dotted(<<"time">>),
   Dotted(<<"calendar">>),
   Dotted(<<"hashlib">>),
   Dotted(<<"hmac">>),
   Dotted(<<"base64">>),
   Dotted(<<"binascii">>),
   Dotted(<<"html">>),
   Dotted(<<"html", "*">>),
   Dotted(<<"urllib", "parse">>),
   Dotted(<<"uuid">>),
   Dotted(<<"struct">>),
   Dotted(<<"codecs">>),
   Dotted(<<"locale">>),
   Dotted(<<"gettext">>),
   Dotted(<<"bisect">>),
   Dotted(<<"heapq">>),
   Dotted(<<"array">>),
   Dotted(<<"weakref">>),
   Dotted(<<"types">>),
   Dotted(<<"contextlib">>),
   Dotted(<<"warnings">>),
   Dotted(<<"traceback">>),
   Dotted(<<"linecache">>),
   Dotted(<<"difflib">>),
   Dotted(<<"graphlib">>),
   Dotted(<<"zoneinfo">>)}

\* DEFAULT_SAFE_IMPORTS of coding_agent_config.py, the default of the
\* field authorized_imports of CodingAgentConfig
CONFIG_DEFAULT_SAFE_IMPORTS ==
  {Dotted(<<"json">>),
   Dotted(<<"math">>),
   Dotted(<<"re">>),
   Dotted(<<"datetime">>),
   Dotted(<<"collections">>),
   Dotted(<<"collections", "*">>),
   Dotted(<<"itertools">>),
   Dotted(<<"functools">>),
   Dotted(<<"operator">>),
   Dotted(<<"string">>),
   Dotted(<<"textwrap">>),
   Dotted(<<"unicodedata">>),
   Dotted(<<"decimal">>),
   Dotted(<<"fractions">>),
   Dotted(<<"random">>),
   Dotted(<<"statistics">>),
   Dotted(<<"typing">>),
   Dotted(<<"typing", "*">>),
   Dotted(<<"dataclasses">>),
   Dotted(<<"enum">>),
   Dotted(<<"abc">>),
   Dotted(<<"copy">>),
   Dotted(<<"pprint">>),
   Dotted(<<"reprlib">>),
   Dotted(<<"numbers">>),
   Dotted(<<"cmath">>),
   Dotted(<<"time">>),
   Dotted(<<"calendar">>),
   Dotted(<<"hashlib">>),
   Dotted(<<"hmac">>),
   Dotted(<<"base64">>),
   Dotted(<<"binascii">>),
   Dotted(<<"html">>),
   Dotted(<<"html", "*">>),
   Dotted(<<"urllib", "parse">>),
   Dotted(<<"uuid">>),
   Dotted(<<"struct">>),
   Dotted(<<"codecs">>),
   Dotted(<<"locale">>),
   Dotted(<<"gettext">>),
   Dotted(<<"bisect">>),
   Dotted(<<"heapq">>),
   Dotted(<<"array">>),
   Dotted(<<"weakref">>),
   Dotted(<<"types">>),
   Dotted(<<"contextlib">>),
   Dotted(<<"warnings">>),
   Dotted(<<"traceback">>),
   Dotted(<<"linecache">>),
   Dotted(<<"difflib">>),
   Dotted(<<"graphlib">>),
   Dotted(<<"zoneinfo">>),
   Dotted(<<"numpy">>),
   Dotted(<<"numpy", "*">>),
   Dotted(<<"pandas">>),
   Dotted(<<"pandas", "*">>),
   Dotted(<<"scipy">>),
   Dotted(<<"scipy", "*">>),
   Dotted(<<"matplotlib">>),
   Dotted(<<"matplotlib", "*">>)}

\* the default of authorized_imports of a class
DefaultAuthorizedImports(class) ==
  IF class = "CodingAgentConfig"
  THEN CONFIG_DEFAULT_SAFE_IMPORTS
  ELSE DEFAULT_SAFE_IMPORTS

HasWildcard(entry) == \E i \in 1..Len(entry) : entry[i] = "*"

\* modules imported under the defaults: every module an allowlist names,
\* a submodule and modules outside both allowlists
ProbeModules ==
  {e \in CONFIG_DEFAULT_SAFE_IMPORTS \cup DEFAULT_SAFE_IMPORTS :
     ~HasWildcard(e)}
  \cup {Dotted(<<"numpy", "linalg">>), Dotted(<<"os">>),
        Dotted(<<"subprocess">>)}

\* the code "import m"
CodeImport(m) ==
  [text |-> "import " \o Str(m), syntax_ok |-> TRUE,
   imports |-> <<PlainImport(m, 1)>>]

DefaultsInit ==
  /\ max_iterations = 1
  /\ error_retry_attempts = 0
  /\ stateful = FALSE
  /\ InitialAgent
  /\ NoImportCheck
  /\ calls_left = 0

\* CodingAgent(name=...) or CodingAgentConfig(name=...) without
\* authorized_imports: the field takes the default of its class
ConstructWithDefaults ==
  /\ construction.class = "none"
  /\ \E class \in {"CodingAgent", "CodingAgentConfig"} :
       /\ construction' =
            [class |-> class, max_iterations |-> 10,
             error_retry_attempts |-> 2, tool_server_port |-> 8765,
             accepted |-> TRUE]
       /\ allowlist' = DefaultAuthorizedImports(class)
  /\ UNCHANGED <<config_vars, agent_vars, ipc_vars, engine_calls, last_call,
                 import_name, checked, allowed, source, violation_list,
                 reply, extracted, answer_value, answer_result>>

\* validate_imports(code, authorized_imports) on the constructed object
ValidateUnderDefaults ==
  /\ construction.class # "none"
  /\ ~checked
  /\ \E m \in ProbeModules :
       /\ source' = CodeImport(m)
       /\ violation_list' = validate_imports(CodeImport(m), allowlist)
  /\ checked' = TRUE
  /\ UNCHANGED <<config_vars, agent_vars, ipc_vars, engine_calls, last_call,
                 import_name, allowlist, allowed, reply, extracted,
                 answer_value, answer_result, construction>>

DefaultsNext == ConstructWithDefaults \/ ValidateUnderDefaults

DefaultsSpec == DefaultsInit /\ [][DefaultsNext]_vars

\* ------------------------------------------------------------------------
\* _call_adk_tool in the sandbox
\* ------------------------------------------------------------------------

\* how the exchange with the server goes: a response arrives, the
\* connection is refused, no response arrives within the timeout, or the
\* connection is closed before a response arrives
TransportOutcomes == {"response", "refused", "read_timeout", "disconnected"}

\* urllib.request.urlopen(req, timeout=300) on the POST: the status of the
\* response and the class of the exception it raises ("" for none)
UrlOpen(tool_name, transport) ==
  CASE transport = "response" ->
         LET status == ExecuteTool(tool_name).status
         IN [posts |-> 1, status |-> status,
             exception |-> IF status = 200 THEN "" ELSE "HTTPError"]
    [] transport = "refused" ->
         [posts |-> 1, status |-> 0, exception |-> "URLError"]
    [] transport = "read_timeout" ->
         [posts |-> 1, status |-> 0, exception |-> "TimeoutError"]
    [] transport = "disconnected" ->
         [posts |-> 1, status |-> 0, exception |-> "RemoteDisconnected"]

\* _call_adk_tool: the entries appended to __ADK_TOOL_TRACES and the class
\* of the exception the caller gets; HTTPError and URLError are caught and
\* re-raised as RuntimeError, other exceptions pass through
call_adk_tool(i, tool_name, transport) ==
  LET r == UrlOpen(tool_name, transport)
  IN IF r.exception \in {"", "HTTPError", "URLError"}
     THEN [posts  |-> r.posts, status |-> r.status,
           traces |-> <<SandboxTraceOf(i, tool_name, r.status)>>,
           raised |-> IF r.exception = "" THEN "" ELSE "RuntimeError"]
     ELSE [posts  |-> r.posts, status |-> r.status,
           traces |-> <<>>,
           raised |-> r.exception]

IpcInit == EngineInit /\ stateful = FALSE

\* one call of a tool stub by the user code; the user code may catch the
\* exception and call again
CallAdkTool ==
  /\ Len(requests) < MaxRequests
  /\ \E tool_name \in {"search", "flaky", "lookup"},
        transport \in TransportOutcomes :
       LET i == Len(requests) + 1
           call == call_adk_tool(i, tool_name, transport)
       IN /\ requests' = Append(requests,
                                 [tool_name |-> tool_name,
                                  transport |-> transport,
                                  posts     |-> call.posts,
                                  status    |-> call.status,
                                  raised    |-> call.raised])
          /\ sandbox_buffer' = sandbox_buffer \o call.traces
  /\ UNCHANGED <<config_vars, matcher_vars, agent_vars, engine_calls,
                 last_call, server, tool_runs>>

IpcSpec == IpcInit /\ [][CallAdkTool]_vars

\* ------------------------------------------------------------------------
\* Claims
\* ------------------------------------------------------------------------

\* C1: in every reachable state of an invocation iteration_count (the local
\* counter and the one kept in the state) is at most max_iterations, the
\* number of LLM calls made equals the iteration counter and so is at most
\* max_iterations, and once the counter has reached max_iterations the loop
\* makes no further LLM call.
C1_IterationBound ==
  /\ iteration <= max_iterations
  /\ state.iteration_count <= max_iterations
  /\ llm_calls = iteration
  /\ llm_calls <= max_iterations
  /\ (pc \in {"loop", "execute", "finish"} /\ iteration >= 1
        => state.iteration_count = iteration)
  /\ (iteration = max_iterations => ~ENABLED Generate)

\* the loop ran into the iteration cap after more than one turn
C1_Witness ==
  /\ pc = "finish"
  /\ iteration = max_iterations
  /\ max_iterations > 1
  /\ final_answer = None
  /\ llm_calls = max_iterations

\* C2: when every LLM call and every sandbox execution returns, each started
\* invocation terminates; it yields exactly one event, the terminal one,
\* which carries the final answer text and the updated agent state, and no
\* event is yielded before it.
C2_OneTerminalEvent ==
  /\ [](Len(events) <= 1)
  /\ [](Len(events) = 1 <=> pc = "done")
  /\ [](pc = "done" =>
          /\ events[1].text = FinalText(final_answer)
          /\ events[1].agent_state = state
          /\ agent_states = [present |-> TRUE, state |-> state])
  /\ (pc = "loop" ~> pc = "done")

\* an invocation that ran several turns has ended with its single event
C2_Witness ==
  /\ pc = "done"
  /\ Len(events) = 1
  /\ iteration > 1
  /\ Len(state.execution_history) > 1
  /\ events[1].agent_state.iteration_count = iteration

\* the history entries recorded by the running invocation
CurrentSteps ==
  SubSeq(state.execution_history, loaded_steps + 1,
         Len(state.execution_history))

RECURSIVE TrailingFailures(_)
\* the number of consecutive entries with non-empty stderr at the end
TrailingFailures(entries) ==
  IF entries = <<>> \/ entries[Len(entries)].stderr = "" THEN 0
  ELSE 1 + TrailingFailures(SubSeq(entries, 1, Len(entries) - 1))

\* the running invocation has started
Started == pc \in {"loop", "execute", "finish", "done"}

\* the last recorded entry belongs to the current iteration: the state is
\* one after the engine ran in this iteration
StepRecorded ==
  /\ Started
  /\ pc # "execute"
  /\ CurrentSteps # <<>>
  /\ CurrentSteps[Len(CurrentSteps)].iteration = iteration

LastStep == CurrentSteps[Len(CurrentSteps)]

\* C3: at every point of an invocation the error counter equals the number
\* of consecutive failing steps (non-empty stderr) at the end of the steps
\* executed so far in this invocation, so a step with empty stderr resets it
\* to 0; once a step has been executed the counter kept in the state agrees.
C3_ConsecutiveFailures ==
  Started =>
    /\ error_count = TrailingFailures(CurrentSteps)
    /\ (CurrentSteps # <<>> => state.error_count = error_count)
    /\ (CurrentSteps # <<>> /\ LastStep.stderr = "" => error_count = 0)

\* a failure, a success and a failure again: the counter is 1, not 2
C3_Witness ==
  /\ pc = "loop"
  /\ Len(CurrentSteps) = 3
  /\ CurrentSteps[1].stderr # ""
  /\ CurrentSteps[2].stderr = ""
  /\ CurrentSteps[3].stderr # ""
  /\ error_count = 1

\* C4: the error counter, the one of the controller and the one stored in
\* the agent state (running, persisted or carried by the terminal event),
\* never exceeds error_retry_attempts + 1.
C4_ErrorCountBound ==
  /\ error_count <= error_retry_attempts + 1
  /\ state.error_count <= error_retry_attempts + 1
  /\ agent_states.state.error_count <= error_retry_attempts + 1
  /\ \A i \in 1..Len(events) :
       events[i].agent_state.error_count <= error_retry_attempts + 1

\* the bound is met: the invocation gave up after retries
C4_Witness ==
  /\ pc = "done"
  /\ error_retry_attempts >= 1
  /\ error_count = error_retry_attempts + 1
  /\ events[1].agent_state.error_count = error_retry_attempts + 1

\* C5: a failing step that makes error_retry_attempts + 1 consecutive
\* failures ends the loop in that iteration: no further LLM call is made and
\* the final answer is the diagnostic text ending in that step stderr; a
\* failing step with fewer consecutive failures sets no final answer,
\* appends the model response and the error feedback quoting the stderr and
\* the failing code, and returns to the loop head, where the next LLM call
\* is made unless max_iterations is reached.
C5_RetryExhaustion ==
  /\ (Started /\ TrailingFailures(CurrentSteps) > error_retry_attempts =>
        /\ pc \in {"finish", "done"}
        /\ TrailingFailures(CurrentSteps) = error_retry_attempts + 1
        /\ StepRecorded
        /\ llm_calls = LastStep.iteration
        /\ final_answer = PyStr(TooManyErrorsText(LastStep.stderr))
        /\ (pc = "done" =>
              events[1].text = TooManyErrorsText(LastStep.stderr)))
  /\ (StepRecorded /\ LastStep.stderr # ""
        /\ TrailingFailures(CurrentSteps) <= error_retry_attempts =>
        /\ \/ pc = "loop"
           \/ pc \in {"finish", "done"} /\ iteration = max_iterations
        /\ (pc = "loop" /\ iteration < max_iterations => ENABLED Generate)
        /\ final_answer = None
        /\ Len(contents) >= 3
        /\ contents[Len(contents) - 1] =
             Turn("model", "response", response_text, "")
        /\ contents[Len(contents)] =
             BuildErrorFeedback(LastStep.stderr, code))

\* the budget of two retries is used up by the third failure in a row, after
\* two rounds of error feedback
C5_Witness ==
  /\ pc = "finish"
  /\ error_retry_attempts = 2
  /\ TrailingFailures(CurrentSteps) = 3
  /\ Len(contents) = 5
  /\ final_answer = PyStr(TooManyErrorsText(LastStep.stderr))

\* C6 as stated: once a step of the invocation has a final-answer marker in
\* its stdout, it is the last step and no LLM call follows it.
C6_MarkerAlwaysTerminates ==
  Started =>
    \A i \in 1..Len(CurrentSteps) :
      CurrentSteps[i].has_final_answer =>
        /\ i = Len(CurrentSteps)
        /\ llm_calls = CurrentSteps[i].iteration

\* C6: a step with empty stderr whose stdout contained a final-answer
\* marker is the last step of the invocation: the controller final answer is
\* the parsed value and no LLM call or sandbox execution follows. When the
\* same step also has non-empty stderr the marker is not honoured: the step
\* is handled as a failure, and the final answer stays unset or becomes the
\* retry-exhaustion diagnostic.
C6_MarkerTerminatesUnlessStderr ==
  /\ (Started =>
        \A i \in 1..Len(CurrentSteps) :
          CurrentSteps[i].has_final_answer /\ CurrentSteps[i].stderr = "" =>
            /\ i = Len(CurrentSteps)
            /\ llm_calls = CurrentSteps[i].iteration
            /\ pc \in {"finish", "done"}
            /\ exec_result.has_final_answer
            /\ final_answer = exec_result.final_answer)
  /\ (StepRecorded /\ LastStep.has_final_answer /\ LastStep.stderr # "" =>
        final_answer \in {None, PyStr(TooManyErrorsText(LastStep.stderr))})

\* a marker next to an error was passed over, a later marker ended the loop
C6_Witness ==
  /\ pc = "done"
  /\ Len(CurrentSteps) = 2
  /\ CurrentSteps[1].has_final_answer
  /\ CurrentSteps[1].stderr # ""
  /\ CurrentSteps[2].has_final_answer
  /\ CurrentSteps[2].stderr = ""
  /\ final_answer = exec_result.final_answer
  /\ final_answer # None

\* what json.dumps or the identity on strings makes of the step answer
AnswerText(answer) == IF IsStr(answer) THEN answer.v ELSE JsonDumps(answer)

\* C7: when the invocation ended on a step with empty stderr and a final
\* answer, the terminal event text is that answer (as JSON unless it is a
\* string) and not the canned iteration-exhaustion message.
C7_AnswerIsEventText ==
  pc = "done" /\ StepRecorded /\ LastStep.has_final_answer
    /\ LastStep.stderr = "" =>
      /\ events[1].text = AnswerText(exec_result.final_answer)
      /\ events[1].text # IterationExhaustedText

\* the engine was called on the code held in `code` and the validator
\* reports a violation for it
RejectedCall ==
  /\ engine_calls' = engine_calls + 1
  /\ last_call' \in {"execute_code", "execute_code_extended"}
  /\ validate_imports(code', AuthorizedImports) # <<>>

\* C8: a call of execute_code or execute_code_extended on code with an
\* import violation returns empty stdout and the violation message as
\* stderr, sends nothing to the underlying executor (no replay either),
\* starts no tool server and leaves the server trace buffer as it was.
C8_RejectedBeforeSandbox ==
  [][RejectedCall =>
       /\ exec_result'.code_result.stdout = <<>>
       /\ exec_result'.clean_stdout = ""
       /\ exec_result'.code_result.stderr =
            ImportValidationErrorStr(validate_imports(code',
                                                      AuthorizedImports))
       /\ exec_result'.code_result.stderr # ""
       /\ ~exec_result'.has_final_answer
       /\ dispatched' = <<>>
       /\ effects' = <<"validate">>
       /\ engine'.tool_server = engine.tool_server
       /\ engine'.servers_started = engine.servers_started
       /\ engine'.server_traces = engine.server_traces]_vars

\* a rejected call on a stateful engine that holds a replayable step and
\* whose running server holds traces
C8_Witness ==
  /\ last_call \in {"execute_code", "execute_code_extended"}
  /\ validate_imports(code, AuthorizedImports) # <<>>
  /\ dispatched = <<>>
  /\ exec_result.code_result.stderr # ""
  /\ stateful
  /\ \E i \in 1..Len(engine.execution_history) :
       engine.execution_history[i].success
  /\ engine.tool_server
  /\ engine.server_traces # <<>>

\* the controller runs the engine on code the validator rejects
RejectedStep ==
  /\ pc = "execute"
  /\ pc' # "execute"
  /\ validate_imports(code, AuthorizedImports) # <<>>

\* C9 as stated: after a call on code that fails import validation the
\* engine history holds one more step, for that code, with success false.
C9_EngineRecordsRejection ==
  [][RejectedStep =>
       /\ Len(engine'.execution_history) = Len(engine.execution_history) + 1
       /\ engine'.execution_history[Len(engine'.execution_history)].code =
            code.text
       /\ ~engine'.execution_history[Len(engine'.execution_history)].success
    ]_vars

\* C9: a call on code that fails import validation returns the synthetic
\* error (empty stdout, the violation message as stderr, so not a success)
\* and leaves the engine history unchanged; the step for that code is
\* recorded by the controller, which appends an entry with that stderr to
\* the execution_history of the invocation state.
C9_ControllerRecordsRejection ==
  [][RejectedStep =>
       LET message == ImportValidationErrorStr(
                        validate_imports(code, AuthorizedImports))
       IN /\ engine'.execution_history = engine.execution_history
          /\ exec_result'.code_result.stderr = message
          /\ message # ""
          /\ state'.execution_history =
               Append(state.execution_history,
                      [iteration        |-> iteration,
                       code             |-> code.text,
                       stdout           |-> "",
                       stderr           |-> message,
                       tool_traces      |-> <<>>,
                       has_final_answer |-> FALSE])]_vars

\* the state history has the rejected step, the engine history has only the
\* step that ran before it
C9_Witness ==
  /\ StepRecorded
  /\ Len(CurrentSteps) = 2
  /\ validate_imports(code, AuthorizedImports) # <<>>
  /\ LastStep.code = code.text
  /\ LastStep.stderr = exec_result.code_result.stderr
  /\ LastStep.stderr # ""
  /\ loaded_steps = 0
  /\ Len(engine.execution_history) = 1
  /\ engine.execution_history[1].success

\* the code with the given source text
CodeOfText(text) == CHOOSE c \in Codes : c.text = text

\* the executions of new code the underlying executor received in this
\* invocation (replays left out)
NonReplayDispatches == SelectSeq(dispatched, LAMBDA d : ~d.replay)

\* the entries of this invocation whose code passed validation
DispatchedSteps ==
  SelectSeq(CurrentSteps,
            LAMBDA e : validate_imports(CodeOfText(e.code),
                                        AuthorizedImports) = <<>>)

\* the entries of this invocation whose code the validator rejected
RejectedSteps ==
  SelectSeq(CurrentSteps,
            LAMBDA e : validate_imports(CodeOfText(e.code),
                                        AuthorizedImports) # <<>>)

\* C10 as stated: the entries appended during an invocation are as many as
\* the non-replay sandbox executions of the invocation, and the code of
\* every entry was dispatched to the sandbox.
C10_EntryPerSandboxExecution ==
  Started =>
    /\ Len(CurrentSteps) = Len(NonReplayDispatches)
    /\ \A i \in 1..Len(CurrentSteps) :
         \E j \in 1..Len(NonReplayDispatches) :
           NonReplayDispatches[j].code = CurrentSteps[i].code

\* C10: every entry appended during an invocation corresponds to exactly one
\* call of the engine: the entries whose code passed import validation
\* match, one to one and in order, the non-replay sandbox executions of the
\* invocation; the other entries are for code that was rejected and never
\* dispatched, and carry the violation message as stderr. So the number of
\* entries is the number of non-replay executions plus the number of
\* rejected codes, and there is one entry per iteration that had code.
C10_EntryPerEngineCall ==
  Started =>
    /\ [i \in 1..Len(DispatchedSteps) |-> DispatchedSteps[i].code] =
         [j \in 1..Len(NonReplayDispatches) |-> NonReplayDispatches[j].code]
    /\ Len(CurrentSteps) = Len(NonReplayDispatches) + Len(RejectedSteps)
    /\ \A i \in 1..Len(RejectedSteps) :
         /\ RejectedSteps[i].stderr =
              ImportValidationErrorStr(
                validate_imports(CodeOfText(RejectedSteps[i].code),
                                 AuthorizedImports))
         /\ RejectedSteps[i].stdout = ""
         /\ \A j \in 1..Len(dispatched) :
              dispatched[j].code # RejectedSteps[i].code
    /\ \A i \in 1..Len(CurrentSteps) :
         /\ CurrentSteps[i].iteration \in 1..iteration
         /\ \A k \in 1..Len(CurrentSteps) :
              CurrentSteps[k].iteration = CurrentSteps[i].iteration => k = i

\* an invocation with a rejected code between two executed ones, the second
\* preceded by a replay of the first
C10_Witness ==
  /\ Started
  /\ Len(CurrentSteps) = 3
  /\ Len(RejectedSteps) = 1
  /\ Len(NonReplayDispatches) = 2
  /\ Len(dispatched) > 2

\* the steps the engine held before its last call
PriorSteps ==
  SubSeq(engine.execution_history, 1, Len(engine.execution_history) - 1)

\* the programs of the prior successful steps followed by the new code
ProgramsInOrder ==
  LET ok == SelectSeq(PriorSteps, LAMBDA st : st.success)
  IN [i \in 1..Len(ok) |-> SessionCodeOfText(ok[i].code)] \o <<code>>

\* C11: with stateful = true over an adapter that starts a fresh interpreter
\* per call, the result of a call is the result the prior successful steps
\* followed by the new code give in one persistent interpreter (x = 40, then
\* final_answer(x + 2), answers 42).
C11_ReplayRestoresState ==
  stateful /\ last_call = "session_execute" =>
    LET expected == ExtractTracesAndAnswer(RunSession(EmptyEnv,
                                                      ProgramsInOrder))
    IN /\ exec_result.code_result.stderr = expected.code_result.stderr
       /\ exec_result.has_final_answer = expected.has_final_answer
       /\ exec_result.final_answer = expected.final_answer

\* the engine was called on code that passes import validation
ValidatedCall ==
  /\ engine_calls' = engine_calls + 1
  /\ last_call' \in {"session_execute", "session_execute_code"}
  /\ validate_imports(code', AuthorizedImports) = <<>>

\* the positions of the steps recorded as successful
SuccessfulPositions(history) ==
  {i \in 1..Len(history) : history[i].success}

\* C12: in stateful mode a validated call dispatches once for each prior
\* step with success = true, in history order, never for a step with
\* success = false, and then once for the new code; in non-stateful mode it
\* dispatches once, for the new code.
C12_ReplayDispatchOrder ==
  [][ValidatedCall =>
       LET history == engine.execution_history
           ok      == SuccessfulPositions(history)
           n       == Len(dispatched')
       IN /\ n = (IF stateful THEN Cardinality(ok) ELSE 0) + 1
          /\ dispatched'[n] = [code |-> code'.text, replay |-> FALSE]
          /\ \A k \in 1..(n - 1) :
               \E i \in ok :
                 /\ Cardinality({j \in ok : j <= i}) = k
                 /\ dispatched'[k] = [code |-> history[i].code,
                                      replay |-> TRUE]]_vars

\* a stateful call after a successful and a failed step: one replay, then
\* the new code
C12_Witness ==
  /\ stateful
  /\ last_call \in {"session_execute", "session_execute_code"}
  /\ Len(PriorSteps) = 2
  /\ PriorSteps[1].success
  /\ ~PriorSteps[2].success
  /\ Len(dispatched) = 2
  /\ dispatched[1] = [code |-> PriorSteps[1].code, replay |-> TRUE]
  /\ ~dispatched[2].replay

\* a is an initial part of b
IsPrefix(a, b) == Len(a) <= Len(b) /\ SubSeq(b, 1, Len(a)) = a

\* the invocation ends: the state is saved and the event yielded
FinishStep == pc = "finish" /\ pc' = "done"

\* the engine keeps its steps from one step of the agent to the next, so a
\* later invocation on the same agent finds the steps of the earlier ones
EngineStepsKept ==
  IsPrefix(engine.execution_history, engine'.execution_history)

\* the first engine call of an invocation, on validated code, of a stateful
\* agent replays the successful steps the engine holds
FirstExecutionReplays ==
  pc = "execute" /\ pc' # "execute" /\ stateful /\ dispatched = <<>>
      /\ validate_imports(code, AuthorizedImports) = <<>> =>
    LET ok == SuccessfulPositions(engine.execution_history)
    IN /\ Len(dispatched') = Cardinality(ok) + 1
       /\ \A k \in 1..Cardinality(ok) : dispatched'[k].replay
       /\ \A i \in ok :
            \E k \in 1..Cardinality(ok) :
              dispatched'[k].code = engine.execution_history[i].code

\* C13 as stated: with stateful = true the engine steps of an earlier
\* invocation are present and replayed at the first execution of a later
\* one, and the state persisted by the later invocation still contains the
\* entries persisted by the earlier one.
C13_HistoryAlwaysPersisted ==
  /\ [][EngineStepsKept]_vars
  /\ [][FirstExecutionReplays]_vars
  /\ [][FinishStep /\ stateful /\ agent_states.present =>
          IsPrefix(agent_states.state.execution_history,
                   agent_states'.state.execution_history)]_vars

\* C13: on the same agent instance (no cleanup in between) the engine steps
\* of an earlier invocation are present at the first execution of a later
\* one, and a stateful agent replays the successful ones; the state persisted
\* by the later invocation contains the entries of the earlier one when the
\* later invocation loaded the saved state from its context, and only its
\* own entries when it started from a new CodingAgentState, whatever the
\* stateful flag.
C13_HistoryPersistedWhenLoaded ==
  /\ [][EngineStepsKept]_vars
  /\ [][FirstExecutionReplays]_vars
  /\ [][(pc \in {"idle", "done"} /\ pc' = "loop") =>
          /\ state' \in {agent_states.state, NewState}
          /\ loaded_steps' = Len(state'.execution_history)]_vars
  /\ [][FinishStep =>
          /\ agent_states'.state.execution_history = state.execution_history
          /\ (loaded_steps > 0 =>
                IsPrefix(agent_states.state.execution_history,
                         agent_states'.state.execution_history))
          /\ (loaded_steps = 0 =>
                agent_states'.state.execution_history = CurrentSteps)]_vars

\* a second invocation of a stateful agent that loaded the saved state and
\* replayed a step of the first invocation
C13_Witness ==
  /\ pc = "done"
  /\ ctx = 2
  /\ stateful
  /\ loaded_steps = 1
  /\ Len(agent_states.state.execution_history) = 2
  /\ Len(engine.execution_history) = 2
  /\ Len(dispatched) = 2
  /\ dispatched[1] = [code |-> engine.execution_history[1].code,
                      replay |-> TRUE]

\* how often trace t occurs in the sequence
Occurrences(traces, t) ==
  Cardinality({i \in 1..Len(traces) : traces[i] = t})

\* the two sequences hold the same traces the same number of times
SameMultiset(a, b) ==
  /\ Len(a) = Len(b)
  /\ \A i \in 1..Len(a) : Occurrences(a, a[i]) = Occurrences(b, a[i])

\* C14: after every engine execution that reached the sandbox, the traces
\* held by the server equal, as multisets of (tool_name, args, success), the
\* tool traces parsed from the trace line of that execution stdout.
C14_ServerTracesMatchStdout ==
  last_call = "session_execute" /\ dispatched # <<>> =>
    SameMultiset(engine.server_traces, exec_result.tool_traces)

\* the position of the first sandbox dispatch (replay or new code) in the
\* effects of a call
FirstDispatch(log) ==
  CHOOSE i \in 1..Len(log) :
    /\ log[i] \in {"replay", "dispatch"}
    /\ \A j \in 1..(i - 1) : log[j] \notin {"replay", "dispatch"}

\* the effect occurs in the log before position i
Before(log, effect, i) == \E j \in 1..(i - 1) : log[j] = effect

\* the tool calls the dispatches of the last call made: those of the
\* replayed steps, then those of the new code
CallsOfLastCall(history, replays) ==
  LET last == history[Len(history)]
      old  == SubSeq(history, 1, Len(history) - 1)
  IN (IF replays THEN ReplayToolCalls(old) ELSE <<>>)
     \o last.result.tool_calls

\* C19: in every engine call that passes validation, before the first
\* sandbox dispatch of the call (replays included) the server is started,
\* holds the invocation context passed to the call and has had its trace
\* buffer cleared: after the call the buffer holds the traces of the
\* dispatches of this call and nothing older.
C19_ServerReadyBeforeDispatch ==
  [][ValidatedCall =>
       LET first == FirstDispatch(effects')
       IN /\ engine'.tool_server
          /\ engine'.servers_started >= 1
          /\ engine.tool_server \/ Before(effects', "start_server", first)
          /\ Before(effects', "set_context", first)
          /\ Before(effects', "clear_traces", first)
          /\ engine'.server_context = ctx'
          /\ engine'.server_traces =
               CallsOfLastCall(engine'.execution_history, stateful)]_vars

\* a call with a new context on an engine whose server held the traces of
\* the call before
C19_Witness ==
  /\ last_call \in {"session_execute", "session_execute_code"}
  /\ code = CodePrint
  /\ ~stateful
  /\ Len(PriorSteps) = 1
  /\ PriorSteps[1].result.tool_calls # <<>>
  /\ engine.server_traces = <<>>
  /\ ctx = 2
  /\ engine.invocation_context = 1
  /\ engine.server_context = 2

\* the request ids of a trace list, in the order of the list
IdsOf(traces) == [k \in 1..Len(traces) |-> traces[k].id]

\* ids are issue positions: a list is in issue order when its ids increase
InIssueOrder(ids) ==
  \A j, k \in 1..Len(ids) : j < k => ids[j] < ids[k]

\* two lists put the requests they share in the same relative order
SameRelativeOrder(a, b) ==
  \A j, k \in 1..Len(a) : \A m, n \in 1..Len(b) :
    (j < k /\ a[j] = b[n] /\ a[k] = b[m]) => n < m

\* C15: within one sandbox execution the server trace list and the sandbox
\* trace buffer hold the tool calls in the same relative order, and that
\* order is the order in which the calls were issued, also when several
\* calls are in flight at once.
C15_TracesInIssueOrder ==
  /\ InIssueOrder(IdsOf(server.traces))
  /\ InIssueOrder(IdsOf(sandbox_buffer))
  /\ SameRelativeOrder(IdsOf(server.traces), IdsOf(sandbox_buffer))

\* request i is answered in this step
Answered(i) ==
  /\ requests[i].pc \in {"sent", "running"}
  /\ requests'[i].pc = "responded"

\* the requests the server has answered
AnsweredRequests ==
  {i \in 1..Len(requests) : requests[i].pc \in {"responded", "done"}}

\* no clear_traces and no replacement of the server since the first request
NoClearSoFar == server.clears = 0 /\ server.stops = 0

\* C16: every /tool_call request appends exactly one trace to the server
\* buffer whatever its outcome, and without an intervening clear the buffer
\* holds, under every interleaving of the requests, exactly one trace per
\* answered request.
C16_OneTracePerRequest ==
  /\ [][\A i \in 1..Len(requests) :
          Answered(i) =>
            /\ Len(server'.traces) = Len(server.traces) + 1
            /\ SubSeq(server'.traces, 1, Len(server.traces)) = server.traces
            /\ server'.traces[Len(server'.traces)].id = i]_vars
  /\ [](NoClearSoFar =>
          /\ Len(server.traces) = Cardinality(AnsweredRequests)
          /\ \A i \in AnsweredRequests :
               Cardinality({k \in 1..Len(server.traces) :
                             server.traces[k].id = i}) = 1)

\* two requests in flight together, answered against their issue order
\* with different outcomes, and no clear
C16_Witness ==
  /\ NoClearSoFar
  /\ Len(requests) = 2
  /\ AnsweredRequests = {1, 2}
  /\ IdsOf(server.traces) = <<2, 1>>
  /\ requests[1].status = 500
  /\ requests[2].status \in {200, 404}
  /\ 1 \in tool_runs

\* the trace the server appended in this step
AppendedTrace == server'.traces[Len(server'.traces)]

\* C17: a /tool_call for an unregistered tool is answered 404, records a
\* failed trace whose error names the tool, and runs no tool; a /tool_call
\* whose tool raises is answered 500 with the text of the error and records
\* a failed trace; a trace has success exactly when the status is 200.
C17_ErrorResponses ==
  /\ [][\A i \in 1..Len(requests) :
          Answered(i) =>
            LET tool_name == requests[i].tool_name
                response  == requests'[i]
            IN /\ AppendedTrace.id = i
               /\ tool_name \notin RegisteredTools =>
                    /\ response.status = 404
                    /\ response.error = "Tool not found: " \o tool_name
                    /\ AppendedTrace.success = FALSE
                    /\ AppendedTrace.error = "Tool not found: " \o tool_name
                    /\ tool_runs' = tool_runs
                    /\ i \notin tool_runs
               /\ (tool_name \in RegisteredTools /\ ToolRaises(tool_name)) =>
                    /\ response.status = 500
                    /\ response.error = ToolError(tool_name)
                    /\ AppendedTrace.success = FALSE
                    /\ AppendedTrace.error = ToolError(tool_name)
               /\ AppendedTrace.success <=> response.status = 200]_vars
  /\ [](\A i \in tool_runs : requests[i].tool_name \in RegisteredTools)

\* an unknown tool and a raising tool were both answered
C17_Witness ==
  /\ Len(requests) = 2
  /\ requests[1].tool_name = "lookup" /\ requests[1].status = 404
  /\ requests[2].tool_name = "flaky" /\ requests[2].status = 500
  /\ Len(server.traces) = 2
  /\ tool_runs = {2}

\* this step is a call of the named entry point
Calls(name) == engine_calls' = engine_calls + 1 /\ last_call' = name

\* C18: start() while the server thread is alive creates no second thread
\* or uvicorn server and leaves the server as it was; between cleanups the
\* engine creates and starts at most one ToolExecutionServer, however often
\* it is asked to ensure the server runs.
C18_StartIdempotent ==
  /\ [][(Calls("start") /\ server.thread_alive) => server' = server]_vars
  /\ [][(Calls("_start_tool_server") /\ server.exists)
          => server' = server]_vars
  /\ [][(Calls("_start_tool_server") /\ ~server.exists)
          => /\ server'.objects = server.objects + 1
             /\ server'.threads = 1
             /\ server'.uvicorn_servers = 1]_vars
  /\ [](server.objects <= server.stops + 1)

\* start() was called on a live server that holds traces, after the engine
\* had created it and no cleanup, clear or thread exit happened
C18_Witness ==
  /\ last_call = "start"
  /\ engine_calls = MaxEngineCalls
  /\ server.thread_alive
  /\ server.objects = 1 /\ server.threads = 1 /\ server.uvicorn_servers = 1
  /\ server.stops = 0 /\ server.clears = 0
  /\ Len(server.traces) = 2

\* entry e of an allowlist covers the name n: it is n, or it is a wildcard
\* Q.* and n starts with Q followed by a dot
Covers(e, n) ==
  \/ e = n
  \/ /\ Len(e) > 2
     /\ SubSeq(e, Len(e) - 1, Len(e)) = <<".", "*">>
     /\ StartsWith(n, SubSeq(e, 1, Len(e) - 1))

\* the module names P whose wildcard is in the allowlist while no other
\* entry covers P
WildcardOnlyBases(al) ==
  {p \in DottedNames(MaxBaseLen) :
     /\ Wildcard(p) \in al
     /\ \A e \in al \ {Wildcard(p)} : ~Covers(e, p)}

\* C20: for a name P and an allowlist whose only entry covering P is the
\* wildcard P.*, is_import_allowed accepts every name that starts with P
\* and a dot, at any depth, and rejects the name P itself.
C20_WildcardExcludesBase ==
  checked =>
    \A p \in WildcardOnlyBases(allowlist) :
      /\ StartsWith(import_name, p \o <<".">>) => allowed
      /\ import_name = p => ~allowed

\* C21: an exact pattern P permits the name P and no submodule name P.X:
\* with the allowlist {P}, is_import_allowed accepts P and rejects every
\* name that starts with P and a dot.
C21_ExactPatternOnly ==
  checked =>
    \A p \in DottedNames(MaxBaseLen) :
      allowlist = {p} =>
        /\ import_name = p => allowed
        /\ StartsWith(import_name, p \o <<".">>) => ~allowed

\* a submodule of the only, exact, entry was checked and rejected
C21_Witness ==
  /\ checked
  /\ allowlist = {<<"a">>}
  /\ import_name = <<"a", ".", "b">>
  /\ ~allowed

\* the imports of the validated code
SourceImports == 1..Len(source.imports)

\* the violation validate_imports words for import i of the code
ExpectedViolation(i) ==
  LET imp == source.imports[i]
  IN IF imp.is_from_import
     THEN "Line " \o ToString(imp.line_number)
          \o ": Unauthorized import \"from " \o Str(imp.module)
          \o " import " \o Str(imp.names[1]) \o "\""
     ELSE "Line " \o ToString(imp.line_number)
          \o ": Unauthorized import \"" \o Str(imp.module) \o "\""

\* how often a violation is in the returned list
TimesReported(v) ==
  Cardinality({k \in 1..Len(violation_list) : violation_list[k] = v})

\* import i of the code is one the allowlist permits: its module matches,
\* or for from M import N the assembled name M.N matches
Permitted(i) ==
  LET imp == source.imports[i]
  IN \/ is_import_allowed(imp.module, allowlist)
     \/ /\ imp.is_from_import
        /\ is_import_allowed(imp.module \o <<".">> \o imp.names[1],
                             allowlist)

\* C22: for from M import N no violation is reported exactly when M or the
\* assembled name M.N matches the allowlist, otherwise exactly one violation
\* is reported for the name, with the line number of the statement; for
\* import M a violation is reported exactly when M does not match.
C22_FromImportRule ==
  (checked /\ source.syntax_ok) =>
    /\ \A i \in SourceImports :
         source.imports[i].module # RelativeModule =>
           TimesReported(ExpectedViolation(i)) =
             (IF Permitted(i) THEN 0 ELSE 1)
    /\ \A k \in 1..Len(violation_list) :
         \E i \in SourceImports : violation_list[k] = ExpectedViolation(i)

\* a from-import permitted only through its assembled name, next to one
\* that is reported
C22_Witness ==
  /\ checked
  /\ source.syntax_ok
  /\ allowlist = {<<"a", ".", "b">>}
  /\ Len(source.imports) = 2
  /\ source.imports[1] = FromImport(<<"a">>, <<"b">>, 1)
  /\ source.imports[2] = FromImport(<<"a">>, <<"c">>, 2)
  /\ violation_list = <<"Line 2: Unauthorized import \"from a import c\"">>

\* C23: a relative import from . import X, whose module string is empty, is
\* accepted only when the allowlist holds the empty string; for every
\* allowlist without it, also one that lists X, a violation is reported.
C23_RelativeNeedsEmptyEntry ==
  (checked /\ source.syntax_ok) =>
    \A i \in SourceImports :
      (source.imports[i].module = RelativeModule /\ <<>> \notin allowlist)
        => TimesReported(ExpectedViolation(i)) = 1

\* the one violation validate_imports returns for code that does not parse
SyntaxViolation == "Syntax error in code: invalid syntax"

\* a call of an engine entry point on code that does not parse
UnparsableCall ==
  /\ engine_calls' = engine_calls + 1
  /\ last_call' \in {"execute_code", "execute_code_extended"}
  /\ ~code'.syntax_ok

\* C24: for code that does not parse, validate_imports returns exactly one
\* violation, the syntax error, whatever imports the code holds, and the
\* engine handles it as a validation failure: the message becomes stderr
\* and nothing is sent to the sandbox.
C24_SyntaxErrorIsOneViolation ==
  [][UnparsableCall =>
       /\ validate_imports(code', AuthorizedImports) = <<SyntaxViolation>>
       /\ exec_result'.code_result.stderr =
            ImportValidationErrorStr(<<SyntaxViolation>>)
       /\ exec_result'.code_result.stdout = <<>>
       /\ ~exec_result'.has_final_answer
       /\ dispatched' = <<>>
       /\ effects' = <<"validate">>
       /\ engine'.execution_history = engine.execution_history]_vars

\* the engine was called on unparsable code that holds an unauthorized
\* import, with a replayable step in its history
C24_Witness ==
  /\ last_call \in {"execute_code", "execute_code_extended"}
  /\ code = CodeSyntaxErrorImportOs
  /\ exec_result.code_result.stderr =
       ImportValidationErrorStr(<<SyntaxViolation>>)
  /\ dispatched = <<>>
  /\ stateful
  /\ \E i \in 1..Len(engine.execution_history) :
       engine.execution_history[i].success

\* the blocks of the response that carry the tag, in order
BlocksTagged(tag) == SelectSeq(reply.blocks, LAMBDA b : b.tag = tag)

\* C25: extraction returns the body of the first fenced block tagged
\* tool_code if there is one, else the body of the first block tagged
\* python, else none; a tool_code block wins over an earlier python block.
\* The body is returned without its surrounding white space.
C25_ToolCodePreferred ==
  checked =>
    IF BlocksTagged("tool_code") # <<>>
    THEN extracted = [found |-> TRUE,
                      code  |-> Strip(BlocksTagged("tool_code")[1].body)]
    ELSE IF BlocksTagged("python") # <<>>
    THEN extracted = [found |-> TRUE,
                      code  |-> Strip(BlocksTagged("python")[1].body)]
    ELSE extracted = NoMatch

\* a python block comes first, two tool_code blocks with different bodies
\* follow, and the first of these was returned
C25_Witness ==
  /\ checked
  /\ Len(reply.blocks) = 3
  /\ reply.blocks[1].tag = "python"
  /\ reply.blocks[2].tag = "tool_code"
  /\ reply.blocks[3].tag = "tool_code"
  /\ reply.blocks[2].body # reply.blocks[3].body
  /\ reply.blocks[1].body # reply.blocks[2].body
  /\ extracted.found
  /\ extracted.code = Strip(reply.blocks[2].body)

\* the controller receives an LLM response in this step
ResponseReceived == pc = "loop" /\ llm_calls' = llm_calls + 1

\* the response received in this step
ReceivedResponse == CHOOSE r \in Responses : r.text = response_text'

\* the blocks of a response that extraction looks at
CodeBlocks(r) ==
  SelectSeq(r.blocks, LAMBDA b : b.tag \in {"tool_code", "python"})

\* the iteration ends the loop with the raw response as the answer and
\* leaves the engine, the history and the error counters alone
EndsWithRawResponse ==
  /\ pc' = "finish"
  /\ final_answer' = PyStr(response_text')
  /\ engine' = engine
  /\ dispatched' = dispatched
  /\ state'.execution_history = state.execution_history
  /\ state'.error_count = state.error_count
  /\ error_count' = error_count

\* the engine is run next, on the given code
EngineRunsOn(c) ==
  /\ pc' = "execute"
  /\ code' = c
  /\ final_answer' = final_answer

\* C26 as stated: a response without code block ends the loop with the raw
\* response as the final answer, with no sandbox execution and with the
\* history and the error count unchanged; whenever the response holds a
\* fenced tool_code or python block, the engine is run on its code.
C26_EngineRunsOnEveryBlock ==
  [][ResponseReceived =>
       IF CodeBlocks(ReceivedResponse) = <<>>
       THEN EndsWithRawResponse
       ELSE EngineRunsOn(code')]_vars

\* C26 amended: the engine is run when the block extraction selects has a
\* body that is not empty; a response whose selected block is empty is
\* handled like one without code block.
C26_EngineRunsOnNonEmptyBlock ==
  /\ [][ResponseReceived =>
          LET blocks == CodeBlocks(ReceivedResponse)
              tool   == SelectSeq(blocks, LAMBDA b : b.tag = "tool_code")
              chosen == IF tool # <<>> THEN tool[1] ELSE blocks[1]
          IN IF blocks = <<>> \/ chosen.body.text = ""
             THEN EndsWithRawResponse
             ELSE EngineRunsOn(chosen.body)]_vars
  /\ [][(pc = "execute" /\ pc' # "execute") =>
          /\ effects'[1] = "validate"
          /\ state'.execution_history =
               Append(state.execution_history,
                      HistoryEntry(iteration, code, exec_result'))]_vars

\* the loop ended in the second iteration on a response whose block is
\* empty, with the raw response as the answer, after one executed step
C26_Witness ==
  /\ pc = "finish"
  /\ response_text = RespEmptyBlock.text
  /\ final_answer = PyStr(RespEmptyBlock.text)
  /\ iteration = 2
  /\ Len(CurrentSteps) = 1
  /\ Len(dispatched) = 1

\* C27: for every string s, when the user code calls final_answer(s) once in
\* an execution with empty stderr, the value the engine recovers and the
\* text of the terminal event equal s.
C27_StringAnswerRoundTrip ==
  checked =>
    /\ answer_result.has_final_answer
    /\ answer_result.recovered = PyStr(StringOf(answer_value))
    /\ answer_result.event_text = StringOf(answer_value)

\* the positions of the trace marker lines in a stdout
TraceLinesOf(stdout) ==
  {k \in 1..Len(stdout) : stdout[k].marker = "__TOOL_TRACE__:"}

\* (execute_code_extended returns the raw stdout of the sandbox in code_result)
\* C28: every execution of a synthesized program prints the __TOOL_TRACE__
\* line exactly once, after all output of the user code and after any
\* __FINAL_ANSWER__ line, whether the user code completes or raises.
C28_TraceLineOncePerExecution ==
  [][(ValidatedCall /\ last_call' = "session_execute") =>
       LET stdout == exec_result'.code_result.stdout
       IN /\ Cardinality(TraceLinesOf(stdout)) = 1
          /\ Len(stdout) \in TraceLinesOf(stdout)]_vars

\* the constructed object satisfies the bounds of the configuration table
WithinBounds(c) ==
  /\ c.max_iterations \in 1..100
  /\ c.error_retry_attempts \in 0..10
  /\ c.tool_server_port \in 1024..65535

\* C29: configuration is validated at construction: every constructed
\* CodingAgentConfig and CodingAgent has 1 <= max_iterations <= 100,
\* 0 <= error_retry_attempts <= 10 and 1024 <= tool_server_port <= 65535,
\* and a construction with a value outside these bounds is rejected.
C29_ConstructionValidated ==
  construction.class # "none" =>
    (construction.accepted <=> WithinBounds(construction))

\* the data-science namespaces as wildcards
DataScienceWildcards ==
  {Dotted(<<"numpy", "*">>), Dotted(<<"pandas", "*">>),
   Dotted(<<"scipy", "*">>), Dotted(<<"matplotlib", "*">>)}

\* C30: the allowlist enforced for an agent constructed without
\* authorized_imports equals the default declared by CodingAgentConfig and
\* holds numpy.*, pandas.*, scipy.* and matplotlib.*, so that the code
\* "import numpy" passes validation under the defaults.
C30_AgentDefaultIsShippedDefault ==
  construction.class = "CodingAgent" =>
    /\ allowlist = CONFIG_DEFAULT_SAFE_IMPORTS
    /\ DataScienceWildcards \subseteq allowlist
    /\ (checked /\ source = CodeImport(Dotted(<<"numpy">>))
          => violation_list = <<>>)

\* C31: stderr wins. When the execution of a step returns non-empty stderr
\* and its stdout held a final-answer marker, the step is handled as a
\* failure: error_count is incremented (in the controller and in the state),
\* the value of the marker does not become the final answer, and while the
\* retry budget lasts the loop goes on with the model response and the error
\* feedback appended to the message buffer.
C31_StderrWins ==
  [][(/\ pc = "execute"
      /\ pc' # "execute"
      /\ exec_result'.code_result.stderr # ""
      /\ exec_result'.has_final_answer)
     => /\ error_count' = error_count + 1
        /\ state'.error_count = error_count'
        /\ final_answer' # exec_result'.final_answer
        /\ (error_count' <= error_retry_attempts =>
              /\ pc' = "loop"
              /\ final_answer' = None
              /\ contents' = contents \o
                   <<Turn("model", "response", response_text, ""),
                     BuildErrorFeedback(exec_result'.code_result.stderr,
                                        code)>>)]_vars

\* a step printed a final answer and then failed; the loop is back at its
\* head with the failure counted and no answer set
C31_Witness ==
  /\ pc = "loop"
  /\ StepRecorded
  /\ LastStep.has_final_answer
  /\ LastStep.stderr # ""
  /\ exec_result.final_answer # None
  /\ error_count = 1
  /\ final_answer = None

\* every iteration of the running invocation so far yielded code that ran
\* with empty stderr and without a final answer
AllStepsQuiet ==
  /\ Len(CurrentSteps) = llm_calls
  /\ \A i \in 1..Len(CurrentSteps) :
       /\ CurrentSteps[i].iteration = i
       /\ CurrentSteps[i].stderr = ""
       /\ ~CurrentSteps[i].has_final_answer

\* C32: if every iteration yields a code block whose execution has empty
\* stderr and no final answer, the loop goes on until it has performed
\* exactly max_iterations iterations (one LLM call and one execution each),
\* and the terminal event carries the iteration-exhaustion message and a
\* state with iteration_count = max_iterations.
C32_ExhaustsIterations ==
  /\ (pc = "loop" /\ AllStepsQuiet /\ iteration < max_iterations =>
        ENABLED Generate /\ ~ENABLED LoopExit)
  /\ (pc \in {"finish", "done"} /\ AllStepsQuiet =>
        /\ llm_calls = max_iterations
        /\ Len(CurrentSteps) = max_iterations
        /\ final_answer = None)
  /\ (pc = "done" /\ AllStepsQuiet =>
        /\ events[1].text = IterationExhaustedText
        /\ events[1].agent_state.iteration_count = max_iterations
        /\ agent_states.state.iteration_count = max_iterations)

\* three quiet iterations out of three, then the canned message
C32_Witness ==
  /\ pc = "done"
  /\ max_iterations = MaxIter
  /\ AllStepsQuiet
  /\ Len(CurrentSteps) = MaxIter
  /\ events[1].text = IterationExhaustedText

\* the conversation events the message buffer is seeded with
SeedContents == <<Turn("user", "event", "task", "")>>

\* the response with the given text
ResponseOfText(text) == CHOOSE r \in Responses : r.text = text

\* the feedback turn for a recorded step: the error feedback when stderr is
\* not empty, the code execution result otherwise
FeedbackOf(step) ==
  IF step.stderr # ""
  THEN BuildErrorFeedback(step.stderr, [text |-> step.code])
  ELSE OutputText(step.stdout)

\* the number of iterations whose two turns are in the message buffer
IterationsInBuffer == (Len(contents) - 1) \div 2

\* the buffer is the seed followed by response and feedback of the first
\* iterations, in order
BufferInOrder ==
  /\ Len(contents) = 1 + 2 * IterationsInBuffer
  /\ SubSeq(contents, 1, 1) = SeedContents
  /\ IterationsInBuffer <= Len(CurrentSteps)
  /\ \A i \in 1..IterationsInBuffer :
       /\ CurrentSteps[i].iteration = i
       /\ contents[2 * i].role = "model"
       /\ contents[2 * i].kind = "response"
       /\ ExtractCodeBlock(ResponseOfText(contents[2 * i].text)).code.text
            = CurrentSteps[i].code
       /\ contents[2 * i + 1] = FeedbackOf(CurrentSteps[i])

\* C33: the LLM calls of an invocation are serial and cumulative. The
\* message buffer passed to the k-th LLM call is the seed conversation
\* followed, for each iteration 1..k-1 in order, by the model response of
\* that iteration and then its feedback turn (the error feedback if stderr
\* was not empty, the code execution result otherwise); the buffer only
\* grows by such a pair, so no turn is dropped, duplicated or reordered.
C33_CumulativeBuffer ==
  /\ [](Started => BufferInOrder)
  /\ [](pc \in {"loop", "execute"} =>
          IterationsInBuffer = Len(CurrentSteps))
  /\ [][(pc = "loop" /\ llm_calls' = llm_calls + 1) =>
          /\ contents' = contents
          /\ IterationsInBuffer = llm_calls]_vars
  /\ [][(pc = "execute" /\ pc' = "loop") =>
          contents' = contents \o
            <<Turn("model", "response", response_text, ""),
              FeedbackOf(state'.execution_history[
                           Len(state'.execution_history)])>>]_vars
  /\ [][(Started /\ Started' /\ contents' # contents) =>
          \/ pc = "execute" /\ pc' = "loop"
          \/ pc = "done" /\ pc' = "loop" /\ contents' = SeedContents]_vars

\* the third LLM call has been made on a buffer that holds the first
\* iteration with its error feedback and the second with its output
C33_Witness ==
  /\ pc = "execute"
  /\ llm_calls = 3
  /\ Len(contents) = 5
  /\ contents[3].kind = "error_feedback"
  /\ contents[5].kind = "execution_result"
  /\ contents[2].text # contents[4].text

\* the iteration fields grow strictly along the entries
StrictlyIncreasing(entries) ==
  \A i, j \in 1..Len(entries) :
    i < j => entries[i].iteration < entries[j].iteration

\* the history of the later state is the one of the earlier state, or that
\* history with one entry for the current iteration appended
KeptOrAppended ==
  \/ state'.execution_history = state.execution_history
  \/ /\ Len(state'.execution_history) = Len(state.execution_history) + 1
     /\ SubSeq(state'.execution_history, 1, Len(state.execution_history))
          = state.execution_history
     /\ state'.execution_history[Len(state'.execution_history)].iteration
          = iteration

\* C34 as stated: the iteration fields of the persisted execution_history
\* are strictly increasing along the list.
C34_PersistedStrictlyIncreasing ==
  /\ StrictlyIncreasing(state.execution_history)
  /\ StrictlyIncreasing(agent_states.state.execution_history)

\* C34: history appends are in strict iteration order within an invocation:
\* the iteration fields of the entries appended by one invocation are
\* strictly increasing along the list and none exceeds the current
\* iteration, so each iteration contributes at most one entry; during an
\* invocation the entries of its state, the loaded ones included, are never
\* modified or removed. Entries loaded from a previous invocation keep
\* their own numbering, which the new invocation starts again at 1.
C34_IterationOrderPerInvocation ==
  /\ [](Started =>
          /\ StrictlyIncreasing(CurrentSteps)
          /\ \A i \in 1..Len(CurrentSteps) :
               CurrentSteps[i].iteration \in 1..iteration)
  /\ [][(Started /\ pc # "done") => KeptOrAppended]_vars
  /\ [][(pc = "finish" /\ pc' = "done") =>
          agent_states'.state.execution_history
            = state.execution_history]_vars

\* an invocation that loaded one entry has appended two of its own; the
\* loaded entry and the first new one both carry iteration 1
C34_Witness ==
  /\ pc = "done"
  /\ loaded_steps = 1
  /\ Len(CurrentSteps) = 2
  /\ CurrentSteps[1].iteration = 1
  /\ state.execution_history[1].iteration = 1
  /\ agent_states.state.execution_history = state.execution_history

\* the entries of the earlier history that the later history still holds are
\* unchanged
EngineStepsUnchanged ==
  \A i \in 1..Len(engine.execution_history) :
    i <= Len(engine'.execution_history) =>
      engine'.execution_history[i] = engine.execution_history[i]

\* C35: every ExecutionStep in the history of the engine has success true
\* exactly when the stderr of the sandbox result of that step is empty, and
\* while the step is in the history the flag (like the rest of the step) is
\* never changed.
C35_SuccessIffNoStderr ==
  /\ [](\A i \in 1..Len(engine.execution_history) :
          engine.execution_history[i].success
            <=> engine.execution_history[i].result.stderr = "")
  /\ [][engine'.execution_history # <<>> => EngineStepsUnchanged]_vars

\* a failed step followed by a successful one
C35_Witness ==
  /\ Len(engine.execution_history) = 2
  /\ ~engine.execution_history[1].success
  /\ engine.execution_history[1].result.stderr # ""
  /\ engine.execution_history[2].success
  /\ engine.execution_history[2].result.stderr = ""

\* the entries of the sandbox buffer that belong to call i
BufferEntriesOf(i) ==
  {k \in 1..Len(sandbox_buffer) : sandbox_buffer[k].id = i}

\* C36: every call of the IPC helper in the sandbox issues exactly one POST
\* to /tool_call and appends exactly one entry to the sandbox trace buffer,
\* with success true on a 200 response and false otherwise, and on every
\* HTTP error or transport failure, a timeout included, it raises a
\* RuntimeError to the calling user code.
C36_OneTracePerHelperCall ==
  \A i \in 1..Len(requests) :
    /\ requests[i].posts = 1
    /\ Cardinality(BufferEntriesOf(i)) = 1
    /\ \A k \in BufferEntriesOf(i) :
         sandbox_buffer[k].success <=> requests[i].status = 200
    /\ (requests[i].status # 200 => requests[i].raised = "RuntimeError")
    /\ (requests[i].status = 200 => requests[i].raised = "")

\* the engine call follows the discipline of the controller: the context it
\* passes is the one the last set_context installed for the invocation
ControllerDiscipline ==
  /\ ctx' # NoCtx
  /\ engine.invocation_context = ctx'

\* C37: under a controller that serializes its executions and installs the
\* context of an invocation before its executions, every tool the server
\* runs while serving a /tool_call of an execution is run with the tool
\* context of the invocation of that execution and never with the one of
\* another invocation, the first call after a new invocation started on a
\* reused server included.
C37_ToolsRunWithCurrentContext ==
  [][(ValidatedCall /\ ControllerDiscipline) =>
       \A k \in 1..Len(engine'.ran_with) : engine'.ran_with[k] = ctx']_vars

\* the second invocation runs a tool on the server the first one started
C37_Witness ==
  /\ last_call = "session_execute"
  /\ ctx = 2
  /\ engine.invocation_context = 2
  /\ engine.servers_started = 1
  /\ Len(engine.execution_history) = 2
  /\ engine.execution_history[1].tool_traces # <<>>
  /\ engine.ran_with = <<2>>

\* execute_code and execute_code_extended applied to the engine as it is,
\* to the given context, code and answer of the sandbox: the same engine
\* afterwards, the same effects and dispatches in the same order, the same
\* stderr and the same marker-free stdout
SameOnState(ictx, user_code, sandbox_result) ==
  LET plain == ExecuteCode(engine, stateful, ictx, user_code, sandbox_result)
      ext   == ExecuteCodeExtended(engine, stateful, ictx, user_code,
                                   sandbox_result)
  IN /\ plain.engine = ext.engine
     /\ plain.effects = ext.effects
     /\ plain.dispatched = ext.dispatched
     /\ plain.result.code_result.stderr = ext.result.code_result.stderr
     /\ plain.result.code_result.stdout = LinesOf(ext.result.clean_stdout)

\* C38: execute_code and execute_code_extended are equivalent on state:
\* applied to the same engine state and input they perform the same sequence
\* of effects (validation, server start, set_context, clear_traces, replay
\* dispatches, sandbox dispatch, one history append), leave the same engine
\* state and return the same stderr and the same marker-stripped stdout.
C38_EntryPointsEquivalent ==
  \A ictx \in {ctx, ctx + 1}, user_code \in Codes,
     sandbox_result \in HarnessResults :
    SameOnState(ictx, user_code, sandbox_result)

\* a stateful engine that holds a successful and a failed step, so that the
\* next call of either entry point replays one step; the last call was
\* execute_code and the one before execute_code_extended
C38_Witness ==
  /\ stateful
  /\ last_call = "execute_code"
  /\ engine.tool_server
  /\ Len(engine.execution_history) = 2
  /\ engine.execution_history[1].success
  /\ ~engine.execution_history[2].success
  /\ engine.execution_history[1].tool_traces # <<>>


\* the call of the engine that is being made re-runs recorded steps first:
\* the code passes validation and there is a successful step to replay
ReplayTakesPlace ==
  PassesValidation(code) /\ ReplayLastResult(engine, stateful) # None

\* the step the engine records for the code it was called with
NewEngineStep == engine'.execution_history[Len(engine'.execution_history)]

\* C39: the outputs of replayed steps are discarded. When a call of the
\* engine re-runs recorded steps and the re-run prints a final-answer marker
\* and fails, the result returned is the one extracted from the run of the
\* new code alone; the engine history gains exactly the step of the new code
\* and keeps every recorded step, success flag included; error_count moves
\* by the outcome of the new code only; and the loop ends only if the new
\* code prints a final answer without error or exhausts the retry budget.
C39_ReplayOutputsDiscarded ==
  [][(pc = "execute" /\ pc' # "execute" /\ ReplayTakesPlace
        /\ ReplayAnswer(engine.execution_history[1]).stderr # "")
       => /\ Len(engine'.execution_history)
               = Len(engine.execution_history) + 1
          /\ SubSeq(engine'.execution_history, 1,
                    Len(engine.execution_history))
               = engine.execution_history
          /\ NewEngineStep.code = code.text
          /\ exec_result'.code_result = NewEngineStep.result
          /\ exec_result'.final_answer = NewEngineStep.final_answer
          /\ exec_result'.has_final_answer
               = (\E k \in 1..Len(NewEngineStep.result.stdout) :
                    NewEngineStep.result.stdout[k].marker
                      = "__FINAL_ANSWER__:")
          /\ error_count' = IF NewEngineStep.result.stderr # ""
                            THEN error_count + 1 ELSE 0
          /\ (pc' = "finish")
               = \/ /\ NewEngineStep.result.stderr = ""
                    /\ exec_result'.has_final_answer
                 \/ /\ NewEngineStep.result.stderr # ""
                    /\ error_count + 1 > error_retry_attempts]_vars

\* a second step was executed after a replay of the first, its result is
\* clean, and the loop goes on with no error counted
C39_Witness ==
  /\ stateful
  /\ pc = "loop"
  /\ Len(engine.execution_history) >= 2
  /\ engine.execution_history[1].success
  /\ \E k \in 1..Len(dispatched) : dispatched[k].replay
  /\ exec_result.code_result.stderr = ""
  /\ ~exec_result.has_final_answer
  /\ error_count = 0


\* the state carried by the terminal event of the invocation
TerminalState == events[Len(events)].agent_state

\* C40: at the terminal event of every invocation, the persisted state has
\* error_count equal to the consecutive-failure counter of the controller
\* for that invocation and iteration_count equal to the number of LLM calls
\* made in that invocation, also when the state was loaded from a previous
\* invocation with non-zero counters.
C40_TerminalCounters ==
  (pc = "done" /\ events # <<>>)
    => /\ TerminalState.error_count = error_count
       /\ TerminalState.iteration_count = llm_calls
       /\ agent_states.state.error_count = error_count
       /\ agent_states.state.iteration_count = llm_calls

====
